---- MODULE Spec2Model ----
(***************************************************************************)
(* Verification model of the Sequential packing codec                      *)
(* (sequential_packing.h), the PCM processor (pcm_proc.h) and the Pro 3    *)
(* wavetable assembler (pro3_wavetable.h).                                 *)
(*                                                                         *)
(* C arrays are modelled as sequences: the C element a[i] is a[i + 1]      *)
(* here.  A buffer is the sequence of the cells the code has written; a    *)
(* cell the code never wrote is indeterminate.                             *)
(***************************************************************************)
EXTENDS Integers, Sequences, FiniteSets, TLC

(***************************************************************************)
(* Bounds of the model.                                                    *)
(***************************************************************************)
\* Binary logarithm of the samples per reference waveform (10 in the source).
\* At least 3, so that an eighth of a waveform is a sample.
SampleBits == 3
\* Longest repeating pattern the codec inputs are built from.
PatLen == 2
\* Every length up to ShortLen is a length of a codec input.
ShortLen == 17

\* pro3_wavetable.h:11 defines 1024 = 2^10; the model keeps the power of two.
PRO3_SAMPLE_SIZE == 2 ^ SampleBits

\* sequential_packing.h:48 defines 128000 = 125 * 1024, room for 125
\* waveforms of one value per sample; the model keeps this ratio to the
\* waveform size, and with it the multiple-of-8 shape 8 * 16000.
SEQUENTIAL_DATA_MAX == 125 * PRO3_SAMPLE_SIZE

\* Number of 8-value packets the value array holds (16000 in the source).
MaxPackets == SEQUENTIAL_DATA_MAX \div 8

(***************************************************************************)
(* Bit helpers on non-negative integers.                                   *)
(***************************************************************************)
\* (x & (1 << k)) != 0
BitSet(x, k) == (x \div (2 ^ k)) % 2 = 1

\* x | 0x80
Or80(x) == IF BitSet(x, 7) THEN x ELSE x + 128

\* x & 0x7f
And7f(x) == x % 128

(***************************************************************************)
(* Inputs of the codec: byte values around the 0x80 boundary, repeated     *)
(* from every short pattern to every short length and from a few patterns  *)
(* to the lengths around 7/8 of the capacity and just under the capacity,  *)
(* and the seven-byte example of the documentation.                        *)
(***************************************************************************)
ByteSamples == {0, 1, 127, 128, 255}

Patterns == UNION {[1..k -> ByteSamples] : k \in 1..PatLen}

Periodic(p, n) == [i \in 1..n |-> p[((i - 1) % Len(p)) + 1]]

ExampleRun == <<129, 2, 131, 4, 133, 6, 135>>

LongPatterns == {<<255>>, <<0, 128>>, <<127, 1, 255>>}

LongLengths ==
    ((7 * MaxPackets - 8)..(7 * MaxPackets + 8))
        \cup ((SEQUENTIAL_DATA_MAX - 8)..SEQUENTIAL_DATA_MAX)

SeqInputs ==
    {Periodic(p, n) : p \in Patterns, n \in 0..ShortLen}
        \cup {Periodic(p, n) : p \in LongPatterns, n \in LongLengths}
        \cup {ExampleRun}

\* Values an out-of-bounds or uninitialised cell may turn out to hold.
StrayValues == {0, 255}

(***************************************************************************)
(* sequential_packing.h                                                    *)
(***************************************************************************)
\* SequentialData after Seq_set(&data, size, values): the size and the cells
\* value[0..size-1].
Seq_set(size, values) == [size |-> size, value |-> SubSeq(values, 1, size)]

EmptyData == [size |-> 0, value |-> <<>>]

\* Seq_unpack: locals before the loop.
UnpackInit == [values |-> <<>>, packbyte |-> 0, pos |-> 0, stop |-> FALSE]

UnpackStepBadBit(st, c) ==
    LET hi == BitSet(st.packbyte, st.pos)
        vals == IF st.pos = 0 THEN st.values
                ELSE Append(st.values, IF hi THEN Or80(c) ELSE c)
    IN  [values |-> vals,
         packbyte |-> IF st.pos = 0 THEN c ELSE st.packbyte,
         pos |-> (st.pos + 1) % 8,
         stop |-> Len(vals) > SEQUENTIAL_DATA_MAX]

UnpackStepNoCycle(st, c) ==
    LET hi == st.pos > 0 /\ BitSet(st.packbyte, st.pos - 1)
        vals == IF st.pos = 0 THEN st.values
                ELSE Append(st.values, IF hi THEN Or80(c) ELSE c)
    IN  [values |-> vals,
         packbyte |-> IF st.pos = 0 THEN c ELSE st.packbyte,
         pos |-> (st.pos + 1) % 16,
         stop |-> Len(vals) > SEQUENTIAL_DATA_MAX]

\* Seq_unpack: one iteration of the loop on the source value c.
UnpackStep(st, c) ==
    LET hi == st.pos > 0 /\ BitSet(st.packbyte, st.pos - 1)
        vals == IF st.pos = 0 THEN st.values
                ELSE Append(st.values, IF hi THEN Or80(c) ELSE c)
    IN  [values |-> vals,
         packbyte |-> IF st.pos = 0 THEN c ELSE st.packbyte,
         pos |-> (st.pos + 1) % 8,
         stop |-> Len(vals) > SEQUENTIAL_DATA_MAX]

RECURSIVE UnpackLoop(_, _, _, _)
\* Seq_unpack: the iterations ixp = lo..hi-1 of the loop in order, from the
\* locals st (the range is walked by halves).
UnpackLoop(p, lo, hi, st) ==
    IF lo >= hi \/ st.stop THEN st
    ELSE IF hi = lo + 1 THEN UnpackStep(st, p.value[lo + 1])
    ELSE UnpackLoop(p, (lo + hi) \div 2, hi, UnpackLoop(p, lo, (lo + hi) \div 2, st))

\* The local array values[] when Seq_unpack leaves its loop.
UnpackValues(p) == UnpackLoop(p, 0, p.size, UnpackInit).values

\* pack: locals before the loop.
PackInit == [values |-> <<>>, packbyte |-> 0, pos |-> 0, packet |-> <<>>, stop |-> FALSE]

PackStepNoMask(st, c) ==
    LET f == IF st.pos = 7
             THEN [values |-> st.values \o <<st.packbyte>> \o st.packet,
                   packbyte |-> 0, pos |-> 0, packet |-> <<>>]
             ELSE [values |-> st.values, packbyte |-> st.packbyte,
                   pos |-> st.pos, packet |-> st.packet]
        hi == BitSet(c, 7)
    IN  [values |-> f.values,
         packbyte |-> IF hi THEN f.packbyte + (2 ^ f.pos) ELSE f.packbyte,
         pos |-> f.pos + 1,
         packet |-> Append(f.packet, c),
         stop |-> Len(f.values) + 8 > SEQUENTIAL_DATA_MAX]

PackStepBitOff(st, c) ==
    LET f == IF st.pos = 7
             THEN [values |-> st.values \o <<st.packbyte>> \o st.packet,
                   packbyte |-> 0, pos |-> 0, packet |-> <<>>]
             ELSE [values |-> st.values, packbyte |-> st.packbyte,
                   pos |-> st.pos, packet |-> st.packet]
        hi == BitSet(c, 7)
    IN  [values |-> f.values,
         packbyte |-> IF hi THEN f.packbyte + (2 ^ (6 - f.pos)) ELSE f.packbyte,
         pos |-> f.pos + 1,
         packet |-> Append(f.packet, IF hi THEN And7f(c) ELSE c),
         stop |-> Len(f.values) + 8 > SEQUENTIAL_DATA_MAX]

\* pack: one iteration of the loop on the source value c.  packet is the
\* sequence packet[0..pos-1]; stop is the break on the capacity test.
PackStep(st, c) ==
    LET f == IF st.pos = 7
             THEN [values |-> st.values \o <<st.packbyte>> \o st.packet,
                   packbyte |-> 0, pos |-> 0, packet |-> <<>>]
             ELSE [values |-> st.values, packbyte |-> st.packbyte,
                   pos |-> st.pos, packet |-> st.packet]
        hi == BitSet(c, 7)
    IN  [values |-> f.values,
         packbyte |-> IF hi THEN f.packbyte + (2 ^ f.pos) ELSE f.packbyte,
         pos |-> f.pos + 1,
         packet |-> Append(f.packet, IF hi THEN And7f(c) ELSE c),
         stop |-> Len(f.values) + 8 > SEQUENTIAL_DATA_MAX]

RECURSIVE PackLoop(_, _, _, _)
\* pack: the iterations ixu = lo..hi-1 of the loop in order, from the locals
\* st (the range is walked by halves).
PackLoop(u, lo, hi, st) ==
    IF lo >= hi \/ st.stop THEN st
    ELSE IF hi = lo + 1 THEN PackStep(st, u.value[lo + 1])
    ELSE PackLoop(u, (lo + hi) \div 2, hi, PackLoop(u, lo, (lo + hi) \div 2, st))

\* The cells pack has written to its local array values[] when it calls
\* Seq_set: the loop's output and the flush after the loop.  Cell k of the
\* result is the write values[k - 1]; a result longer than the array means
\* writes past its end.
PackValues(u) ==
    LET st == PackLoop(u, 0, u.size, PackInit)
    IN  st.values \o <<st.packbyte>> \o st.packet

\* Seq_set(&packed, size, values) at the end of pack, for writes w that all
\* lie inside values[].
PackResult(w) == Seq_set(Len(w), w)

\* pack(unpacked) when the packed form fits the value array.
pack(u) == PackResult(PackValues(u))

(***************************************************************************)
(* State of a program that uses the codec.                                 *)
(*   unpacked   the UnpackedData handed to pack                            *)
(*   packed     the PackedData held by the caller                          *)
(*   result     the UnpackedData Seq_unpack returned last                  *)
(*   seqOp      the last call                                              *)
(*   fromPack   packed is what pack returned for the current unpacked      *)
(*   seqOob     number of cells the last call wrote past the end of a      *)
(*              value array                                                *)
(***************************************************************************)
VARIABLES unpacked, packed, result, seqOp, fromPack, seqOob

seqVars == <<unpacked, packed, result, seqOp, fromPack, seqOob>>

\* The caller has filled either an UnpackedData or a PackedData (a received
\* dump) with Seq_set; nothing has been packed or unpacked yet.
SeqInit ==
    /\ \E x \in SeqInputs :
          \/ unpacked = Seq_set(Len(x), x) /\ packed = EmptyData
          \/ unpacked = EmptyData /\ packed = Seq_set(Len(x), x)
    /\ result = EmptyData
    /\ seqOp = "set"
    /\ fromPack = FALSE
    /\ seqOob = 0

\* Number of cells of w that lie past the end of a value array.
Overrun(w) == IF Len(w) > SEQUENTIAL_DATA_MAX THEN Len(w) - SEQUENTIAL_DATA_MAX ELSE 0

\* What the cells past the end of the array may hold when they are read back:
\* the values written there, or whatever else the memory holds.
Spilled(w) ==
    LET inside == SubSeq(w, 1, SEQUENTIAL_DATA_MAX)
    IN  {w} \cup {inside \o [i \in 1..Overrun(w) |-> g] : g \in StrayValues}

\* packed = pack(unpacked), with the final Seq_set.  Writes past the end of
\* values[] and of packed.value[] are undefined: the call may end the program
\* or return with the size it counted.
Pack ==
    LET w == PackValues(unpacked)
    IN  /\ seqOob' = Overrun(w)
        /\ result' = EmptyData
        /\ UNCHANGED unpacked
        /\ \/ /\ Overrun(w) = 0
              /\ packed' = Seq_set(Len(w), w)
              /\ seqOp' = "pack"
              /\ fromPack' = TRUE
           \/ /\ Overrun(w) > 0
              /\ \E v \in Spilled(w) : packed' = [size |-> Len(w), value |-> v]
              /\ seqOp' = "pack"
              /\ fromPack' = TRUE
           \/ /\ Overrun(w) > 0
              /\ packed' = EmptyData
              /\ seqOp' = "crash"
              /\ fromPack' = FALSE

\* result = Seq_unpack(packed), with the final Seq_set.
Unpack ==
    LET w == UnpackValues(packed)
    IN  /\ seqOp # "crash"
        /\ result' = Seq_set(Len(w), w)
        /\ seqOob' = Overrun(w)
        /\ seqOp' = "unpack"
        /\ UNCHANGED <<unpacked, packed, fromPack>>



(***************************************************************************)
(* Properties of the codec.                                                *)
(***************************************************************************)
CeilDiv(n, d) == (n + d - 1) \div d

\* The packed form of n values, one pack byte per group of up to 7, fits.
Fits(n) == n + CeilDiv(n, 7) <= SEQUENTIAL_DATA_MAX

\* result is Seq_unpack(pack(unpacked)).
RoundTripDone == seqOp = "unpack" /\ fromPack

HasHighBit(v) == \E i \in 1..Len(v) : v[i] >= 128

\* Run g (0-based) of the values x: up to 7 consecutive values.
Run(x, g) == SubSeq(x, 7 * g + 1, IF 7 * g + 7 <= Len(x) THEN 7 * g + 7 ELSE Len(x))

RECURSIVE PackByteOf(_)
PackByteOf(run) ==
    IF run = <<>> THEN 0
    ELSE (IF run[1] >= 128 THEN 1 ELSE 0) + 2 * PackByteOf(Tail(run))

\* The output holds run g of the input as a pack byte and the masked values.
RunPacked(x, out, g) ==
    LET run == Run(x, g)
    IN  /\ 8 * g + 1 + Len(run) <= Len(out)
        /\ out[8 * g + 1] = PackByteOf(run)
        /\ \A k \in 1..Len(run) : out[8 * g + 1 + k] = run[k] % 128

AllRunsPacked(x, out) == \A g \in 0..(CeilDiv(Len(x), 7) - 1) : RunPacked(x, out, g)

\* C1 as stated: for every unpacked x whose length is a multiple of 7 and at
\* most the capacity, Seq_unpack(Seq_pack(x)) has the length and the values
\* of x.
C1_RoundTripUpToCapacity ==
    (RoundTripDone /\ unpacked.size % 7 = 0 /\ unpacked.size <= SEQUENTIAL_DATA_MAX)
        => result = unpacked

\* C1 amended: for every unpacked x whose length is a multiple of 7 and at
\* most 7/8 of the capacity (its packed form fits), Seq_unpack(Seq_pack(x))
\* has the length and the values of x.
C1_RoundTripWhenPackedFits ==
    (RoundTripDone /\ unpacked.size % 7 = 0 /\ 8 * unpacked.size <= 7 * SEQUENTIAL_DATA_MAX)
        => (result = unpacked /\ Len(result.value) = unpacked.size)

C1_Witness ==
    /\ RoundTripDone
    /\ unpacked.size = 7 * MaxPackets
    /\ HasHighBit(unpacked.value)
    /\ result = unpacked

\* C2: for every unpacked x whose length is not a multiple of 7 (lengths 0 and
\* 1..6 included) and whose packed form fits in the capacity,
\* Seq_unpack(Seq_pack(x)) equals x: the final short group round-trips.
C2_ShortGroupRoundTrip ==
    (RoundTripDone /\ (unpacked.size = 0 \/ unpacked.size % 7 # 0) /\ Fits(unpacked.size))
        => (result = unpacked /\ Len(result.value) = unpacked.size)

C2_Witness ==
    /\ RoundTripDone
    /\ unpacked.size > 7
    /\ unpacked.size % 7 = 3
    /\ unpacked.value[unpacked.size] >= 128
    /\ result = unpacked

\* C3 as stated: for every unpacked input within capacity, the output of
\* pack holds, for each consecutive run of up to 7 input values, a pack byte
\* whose bit k is set iff the run's k-th value has its 0x80 bit set, followed
\* by the run's values with the 0x80 bit cleared.
C3_RunsPackedUpToCapacity ==
    (seqOp = "pack" /\ unpacked.size <= SEQUENTIAL_DATA_MAX)
        => AllRunsPacked(unpacked.value, packed.value)

\* C3 amended: for every unpacked input whose packed form fits in the
\* capacity, the output of pack holds each run as its pack byte followed by
\* the masked values; the example run packs to 0x55 and 1..7.
C3_RunsPackedWhenFits ==
    /\ (seqOp = "pack" /\ Fits(unpacked.size))
          => AllRunsPacked(unpacked.value, packed.value)
    /\ (seqOp = "pack" /\ unpacked.value = ExampleRun)
          => packed.value = <<85, 1, 2, 3, 4, 5, 6, 7>>

C3_Witness ==
    /\ seqOp = "pack"
    /\ unpacked.value = ExampleRun
    /\ packed = [size |-> 8, value |-> <<85, 1, 2, 3, 4, 5, 6, 7>>]

\* C4: for every number n >= 0 of input values whose packed form fits in the
\* capacity, the output of pack has length ceil(n/7) + n, and no pack byte is
\* emitted without a value after it.
C4_PackedLength ==
    (seqOp = "pack" /\ Fits(unpacked.size))
        => (packed.size = CeilDiv(unpacked.size, 7) + unpacked.size /\ packed.size % 8 # 1)

\* C5: for every packed p of length n within capacity, Seq_unpack(p) has
\* length n - ceil(n/8), and value j is p[8*(j div 7) + 1 + (j mod 7)] with
\* 0x80 or-ed in iff bit (j mod 7) of the pack byte p[8*(j div 7)] is set.
C5_UnpackLayout ==
    (seqOp = "unpack" /\ packed.size <= SEQUENTIAL_DATA_MAX)
        => /\ result.size = packed.size - CeilDiv(packed.size, 8)
           /\ Len(result.value) = result.size
           /\ \A j \in 0..(result.size - 1) :
                 LET pb == packed.value[8 * (j \div 7) + 1]
                     c == packed.value[8 * (j \div 7) + 1 + (j % 7) + 1]
                 IN  result.value[j + 1] = IF BitSet(pb, j % 7) THEN Or80(c) ELSE c

C5_Witness ==
    /\ seqOp = "unpack"
    /\ ~fromPack
    /\ packed.size > 8
    /\ packed.size % 8 = 4
    /\ result.size = packed.size - CeilDiv(packed.size, 8)
    /\ \E j \in 1..result.size : result.value[j] = 128 + 127
    /\ \E j \in 1..packed.size : packed.value[j] = 127
    /\ \A j \in 1..packed.size : packed.value[j] < 128

\* C6: for every unpacked input whose size is at most the capacity, pack
\* writes no output element at an index >= the capacity and returns a size <=
\* the capacity.
C6_PackStaysInCapacity ==
    (seqOp \in {"pack", "crash"} /\ unpacked.size <= SEQUENTIAL_DATA_MAX)
        => (seqOob = 0 /\ packed.size <= SEQUENTIAL_DATA_MAX)

(***************************************************************************)
(* IEEE 754 single precision, as the C type float: a value is              *)
(* s * m * 2^e with sign s, mantissa 0 <= m < 2^24 and exponent e.         *)
(* Operations round to nearest, ties to even.  The ranges the code reaches *)
(* stay far from overflow and from subnormal numbers.                      *)
(***************************************************************************)
RECURSIVE Bits(_)
\* Number of binary digits of the natural number n.
Bits(n) == IF n = 0 THEN 0 ELSE 1 + Bits(n \div 2)

FZero == [s |-> 1, m |-> 0, e |-> 0]

\* s * M * 2^e with the low d digits of M rounded away.
RoundOff(s, M, e, d) ==
    LET q == M \div (2 ^ d)
        r == M % (2 ^ d)
        half == 2 ^ (d - 1)
    IN  IF r > half \/ (r = half /\ q % 2 = 1)
        THEN (IF q + 1 = 2 ^ 24 THEN [s |-> s, m |-> 2 ^ 23, e |-> e + d + 1]
              ELSE [s |-> s, m |-> q + 1, e |-> e + d])
        ELSE [s |-> s, m |-> q, e |-> e + d]

\* The float nearest to s * M * 2^e, for a natural number M.
RoundM(s, M, e) ==
    IF Bits(M) <= 24 THEN [s |-> s, m |-> M, e |-> IF M = 0 THEN 0 ELSE e]
    ELSE RoundOff(s, M, e, Bits(M) - 24)

\* The float f with its mantissa shifted up by k digits.
Shifted(f, k) == [s |-> f.s, m |-> f.m * (2 ^ k), e |-> f.e - k]

\* The same value with a 24-digit mantissa.
Norm(f) == IF f.m = 0 THEN FZero ELSE Shifted(f, 24 - Bits(f.m))

\* (float) n
FromInt(n) == IF n < 0 THEN RoundM(-1, -n, 0) ELSE RoundM(1, n, 0)

\* The product of the mantissas (a1 * 4096 + b1) and (a2 * 4096 + b2), as
\* the pair of its high and low 24 digits.
Product(a1, b1, a2, b2) ==
    LET mid == a1 * b2 + a2 * b1
        t == b1 * b2 + (mid % 4096) * 4096
    IN  [hi |-> a1 * a2 + (mid \div 4096) + (t \div (2 ^ 24)), lo |-> t % (2 ^ 24)]

\* sg * (hi * 2^24 + lo) * 2^ex rounded, hi having h > 0 digits.
RoundProduct(sg, ex, hi, lo, h) ==
    LET q == hi * (2 ^ (24 - h)) + (lo \div (2 ^ h))
        r == lo % (2 ^ h)
        half == 2 ^ (h - 1)
    IN  IF r > half \/ (r = half /\ q % 2 = 1)
        THEN (IF q + 1 = 2 ^ 24 THEN [s |-> sg, m |-> 2 ^ 23, e |-> ex + h + 1]
              ELSE [s |-> sg, m |-> q + 1, e |-> ex + h])
        ELSE [s |-> sg, m |-> q, e |-> ex + h]

FMulParts(sg, ex, p) ==
    IF p.hi = 0 THEN [s |-> sg, m |-> p.lo, e |-> ex]
    ELSE RoundProduct(sg, ex, p.hi, p.lo, Bits(p.hi))

\* f * g
FMul(f, g) ==
    IF f.m = 0 \/ g.m = 0 THEN FZero
    ELSE FMulParts(f.s * g.s, f.e + g.e,
                   Product(f.m \div 4096, f.m % 4096, g.m \div 4096, g.m % 4096))

RECURSIVE DivDigits(_, _, _, _)
\* k more quotient digits of rem / d after the quotient q; the last digit is
\* forced to 1 when the division is inexact.
DivDigits(q, rem, d, k) ==
    IF k = 0 THEN (IF rem # 0 /\ q % 2 = 0 THEN q + 1 ELSE q)
    ELSE IF 2 * rem >= d THEN DivDigits(2 * q + 1, 2 * rem - d, d, k - 1)
         ELSE DivDigits(2 * q, 2 * rem, d, k - 1)

\* a / b for floats with 24-digit mantissas.
FDivNorm(a, b) ==
    RoundM(a.s * b.s, DivDigits(a.m \div b.m, a.m % b.m, b.m, 26), a.e - b.e - 26)

\* f / g, for g # 0.
FDiv(f, g) == IF f.m = 0 THEN FZero ELSE FDivNorm(Norm(f), Norm(g))

\* x shifted down by d digits, the last digit forced to 1 when digits are
\* shifted out.
Sticky(x, d) ==
    IF x % (2 ^ d) # 0 /\ (x \div (2 ^ d)) % 2 = 0 THEN (x \div (2 ^ d)) + 1
    ELSE x \div (2 ^ d)

\* s * S * 2^e rounded, for an integer S.
RoundS(s, S, e) == IF S >= 0 THEN RoundM(s, S, e) ELSE RoundM(-s, -S, e)

\* big + sml for floats with 24-digit mantissas, big.e >= sml.e.  The
\* smaller operand is aligned under three guard digits.
FAddAligned(big, sml) ==
    IF big.e - sml.e >= 27 THEN big
    ELSE RoundS(big.s,
                IF big.s = sml.s
                THEN big.m * 8 + Sticky(sml.m * 8, big.e - sml.e)
                ELSE big.m * 8 - Sticky(sml.m * 8, big.e - sml.e),
                big.e - 3)

FAddNorm(nf, ng) == IF nf.e >= ng.e THEN FAddAligned(nf, ng) ELSE FAddAligned(ng, nf)

\* f + g
FAdd(f, g) ==
    IF f.m = 0 THEN g
    ELSE IF g.m = 0 THEN f
    ELSE FAddNorm(Norm(f), Norm(g))

\* (int) f and (unsigned long) f: the fraction is discarded.
FTrunc(f) ==
    IF f.e >= 0 THEN f.s * f.m * (2 ^ f.e)
    ELSE IF -f.e > 30 THEN 0
    ELSE f.s * (f.m \div (2 ^ (-f.e)))

(***************************************************************************)
(* pcm_proc.h                                                              *)
(***************************************************************************)
PRO3_WAVES == 16

\* pcm_proc.h:43 defines 131072 = 2^17, a power-of-two multiple of the
\* waveform size; the model keeps four waveforms' worth.
PCM_PROC_MAX == 4 * PRO3_SAMPLE_SIZE

\* The content of an array cell that was never written (an automatic array
\* such as `PCMData pcm;` or `pcm_sample_t data[PCM_PROC_MAX];`).  It is no
\* sample value; whoever reads it gets an arbitrary value.
Indet == -2147483647 - 1

\* The sequence s with every element evaluated.
Strict(s) == SubSeq(s, 1, Len(s))

\* a[i] of a C array whose written cells are the sequence a.
Cell(a, i) == IF i < Len(a) THEN a[i + 1] ELSE Indet

\* (int16_t) x
Int16(x) == LET r == x % 65536 IN IF r >= 32768 THEN r - 65536 ELSE r

\* a / b of C on ints, b > 0: the quotient is truncated towards zero.
CDiv(a, b) == IF a >= 0 THEN a \div b ELSE -((-a) \div b)

new_PCMData == [size |-> 0, channels |-> 1, resolution |-> 16, data |-> <<>>]

\* set_pcm_data(pcm, size, data): cells past size keep what they held.
set_pcm_data(pcm, size, data) ==
    [pcm EXCEPT
        !.size = size \div pcm.channels,
        !.data = Strict([i \in 1..(IF size > Len(pcm.data) THEN size ELSE Len(pcm.data)) |->
                            IF i <= size THEN Cell(data, i - 1) ELSE pcm.data[i]])]

pcm_clone(pcm) ==
    set_pcm_data([new_PCMData EXCEPT !.size = pcm.size,
                                     !.resolution = pcm.resolution,
                                     !.channels = pcm.channels],
                 pcm.size * pcm.channels, pcm.data)

\* pcm_change_resolution: a sample of an 8-bit buffer as a signed value.
Unbiased(sample, res) == IF res = 8 THEN sample - 128 ELSE sample

\* The lowering branch with a negative value left alone when its round bit
\* is clear.
LoweredSampleNoRoundDown(s0, res, new_resolution) ==
    LET max == (2 ^ new_resolution) - 1
        s1 == s0 \div (2 ^ (res - new_resolution - 1))
        round_up == s1 % 2 = 1 /\ s1 >= 0
        s2 == s1 \div 2
    IN  IF round_up /\ s2 < max THEN s2 + 1 ELSE s2

\* pcm_change_resolution: the signed sample s0 after the branch that lowers
\* the resolution, before an 8-bit result is made unsigned.
LoweredSample(s0, res, new_resolution) ==
    LET max == (2 ^ new_resolution) - 1
        min == -1 - max
        s1 == s0 \div (2 ^ (res - new_resolution - 1))
        round_up == s1 % 2 = 1 /\ s1 >= 0
        round_dn == s1 % 2 = 0 /\ s1 < 0
        s2 == s1 \div 2
        s3 == IF round_up /\ s2 < max THEN s2 + 1 ELSE s2
    IN  IF round_dn /\ s3 > min THEN s3 - 1 ELSE s3

\* sample <<= k on a 32-bit int, 0 < k < 32: the bits that leave the word
\* are lost, as in every build of the shift.
ShiftLeft(x, k) ==
    LET low == x % (2 ^ (32 - k))
    IN  IF low >= 2 ^ (31 - k) THEN (low - 2 ^ (32 - k)) * (2 ^ k) ELSE low * (2 ^ k)

\* pcm_change_resolution: the new value of one sample.
Requantize(sample, res, new_resolution) ==
    LET s0 == Unbiased(sample, res)
        lowered == IF new_resolution < res THEN LoweredSample(s0, res, new_resolution)
                   ELSE s0
        raised == IF new_resolution > res THEN ShiftLeft(lowered, new_resolution - res)
                  ELSE lowered
    IN  IF sample = Indet THEN Indet
        ELSE IF new_resolution = 8 THEN (raised + 128) % 256
        ELSE raised

pcm_change_resolution(pcm, new_resolution) ==
    LET nr == IF new_resolution > 32 \/ new_resolution < 8 THEN pcm.resolution
              ELSE new_resolution
        n == pcm.size * pcm.channels
        data == Strict([i \in 1..n |-> Requantize(Cell(pcm.data, i - 1), pcm.resolution, nr)])
    IN  IF pcm.resolution # nr
        THEN set_pcm_data([pcm EXCEPT !.resolution = nr], n, data)
        ELSE pcm

\* pcm_change_size: the sample inserted between data[dx] and data[nx].
Mean(a, b) ==
    IF a = Indet \/ b = Indet THEN Indet
    ELSE CDiv(Int16(a), 2) + CDiv(Int16(b), 2)

RECURSIVE Expand(_, _, _, _)
\* pcm_change_size: expanded_data[] after one pass over data[], from index dx.
Expand(data, data_size, channels, dx) ==
    IF dx >= data_size * channels THEN <<>>
    ELSE (IF dx + channels < data_size * channels
          THEN <<Cell(data, dx), Mean(Cell(data, dx), Cell(data, dx + channels))>>
          ELSE <<Cell(data, dx)>>)
         \o Expand(data, data_size, channels, dx + 1)

RECURSIVE GrowOverrun(_, _, _, _)
\* pcm_change_size: some pass of the while loop writes past the end of
\* expanded_data[].
GrowOverrun(data, data_size, channels, new_size) ==
    /\ data_size < new_size
    /\ \/ Len(Expand(data, data_size, channels, 0)) > PCM_PROC_MAX
       \/ GrowOverrun(Expand(data, data_size, channels, 0),
                      Len(Expand(data, data_size, channels, 0)) \div channels,
                      channels, new_size)

RECURSIVE Grow(_, _, _, _)
\* pcm_change_size: data[] and data_size when the while loop ends.
Grow(data, data_size, channels, new_size) ==
    IF data_size >= new_size THEN [data |-> data, data_size |-> data_size]
    ELSE LET ex == Expand(data, data_size, channels, 0)
         IN  Grow(ex, Len(ex) \div channels, channels, new_size)

\* pcm_change_size: ix, held under the number of cells of data[].
ClampIx(ix, cells) == IF ix >= cells THEN cells ELSE ix

\* pcm_change_size: the index into data[] for output sample i of channel ch.
ResizeIndex(i, ch, channels, data_size, new_size) ==
    ClampIx(FTrunc(FAdd(FMul(FMul(FromInt(i),
                                  FDiv(FromInt(data_size), FromInt(new_size))),
                             FromInt(channels)),
                        FromInt(ch))),
            data_size * channels)

\* pcm_change_size: resized_data[], read from the grown data g.
Resized(g, channels, ns) ==
    [k \in 1..(ns * channels) |->
        Cell(g.data, ResizeIndex((k - 1) \div channels, (k - 1) % channels,
                                 channels, g.data_size, ns))]

\* pcm_change_size: new_size held under PCM_PROC_MAX / channels.
CappedSize(new_size, channels) ==
    IF new_size > PCM_PROC_MAX \div channels THEN PCM_PROC_MAX \div channels ELSE new_size

\* pcm_change_size: data[] as copied from the buffer before the while loop.
WorkingCopy(pcm) == Strict([i \in 1..pcm.size |-> Cell(pcm.data, i - 1)])

\* pcm_change_size(pcm, new_size) writes past the end of expanded_data[].
SizeOverrun(pcm, new_size) ==
    /\ pcm.size > 1
    /\ GrowOverrun(WorkingCopy(pcm), pcm.size, pcm.channels,
                   CappedSize(new_size, pcm.channels))

\* pcm_change_size with new_size already held under PCM_PROC_MAX / channels.
ChangeSize(pcm, ns) ==
    IF pcm.size > 1
    THEN set_pcm_data(pcm, ns * pcm.channels,
                      Resized(Grow(Strict([i \in 1..pcm.size |-> Cell(pcm.data, i - 1)]),
                                   pcm.size, pcm.channels, ns),
                              pcm.channels, ns))
    ELSE pcm

pcm_change_size(pcm, new_size) ==
    ChangeSize(pcm, IF new_size > PCM_PROC_MAX \div pcm.channels
                    THEN PCM_PROC_MAX \div pcm.channels ELSE new_size)

\* pcm_normalize: max = ((0x01 << resolution) / 2) - 1.  For 32 bits the
\* shift by the width of an int gives 1 or 0 in the builds at hand, and
\* (1 / 2) - 1 = (0 / 2) - 1 = -1.
NormMax(resolution) == IF resolution >= 32 THEN -1 ELSE ((2 ^ resolution) \div 2) - 1

\* abs(x)
Abs(x) == IF x < 0 THEN -x ELSE x

\* pcm_normalize: if (pos_sample > peak) peak = pos_sample
PeakStep(peak, pos_sample) == IF pos_sample > peak THEN pos_sample ELSE peak

RECURSIVE Peak(_, _)
\* pcm_normalize: peak after the cells 0..n-1.
Peak(data, n) ==
    IF n = 0 THEN 0 ELSE PeakStep(Peak(data, n - 1), Abs(Cell(data, n - 1)))

\* pcm_normalize: coeff = peak ? (max * new_amplitude) / peak : 1
Coeff(max, new_amplitude, peak) ==
    IF peak # 0 THEN FDiv(FMul(FromInt(max), new_amplitude), FromInt(peak))
    ELSE FromInt(1)

\* pcm_normalize: data[i] = pcm->data[i] * coeff
Scaled(sample, coeff) == FTrunc(FMul(FromInt(sample), coeff))

\* pcm_normalize: data[] after the second loop.
ScaledData(pcm, coeff) ==
    Strict([i \in 1..(pcm.size * pcm.channels) |-> Scaled(Cell(pcm.data, i - 1), coeff)])

\* pcm_normalize(&pcm, new_amplitude); the last call is
\* set_pcm_data(pcm, pcm->size, data).
pcm_normalize(pcm, new_amplitude) ==
    set_pcm_data(pcm, pcm.size,
                 ScaledData(pcm, Coeff(NormMax(pcm.resolution), new_amplitude,
                                       Peak(pcm.data, pcm.size * pcm.channels))))

\* pcm_gen_saw and pcm_gen_square, with the waveform size of the model.
pcm_gen_saw ==
    LET half == PRO3_SAMPLE_SIZE \div 2
        step == 32768 \div half
    IN  set_pcm_data(new_PCMData, PRO3_SAMPLE_SIZE,
                     [i \in 1..PRO3_SAMPLE_SIZE |->
                         IF i <= half THEN (i - 1) * step
                         ELSE (i - 1 - half) * step - 32768])

pcm_gen_square ==
    LET half == PRO3_SAMPLE_SIZE \div 2
    IN  set_pcm_data(new_PCMData, PRO3_SAMPLE_SIZE,
                     [i \in 1..PRO3_SAMPLE_SIZE |-> IF i <= half THEN 32767 ELSE -32768])

(***************************************************************************)
(* pro3_wavetable.h                                                        *)
(***************************************************************************)
Slots == 0..(PRO3_WAVES - 1)

\* A Wavetable: ref[k + 1] is the C array ref[k], isset[k + 1] is isset[k].
new_Wavetable ==
    [ref |-> [k \in 1..PRO3_WAVES |-> [i \in 1..PRO3_SAMPLE_SIZE |-> 0]],
     isset |-> [k \in 1..PRO3_WAVES |-> 0]]

\* set_reference: the two conversions of the clone.
ToSampleSize(clone) ==
    IF clone.size # PRO3_SAMPLE_SIZE THEN pcm_change_size(clone, PRO3_SAMPLE_SIZE) ELSE clone

To16Bits(clone) ==
    IF clone.resolution # 16 THEN pcm_change_resolution(clone, 16) ELSE clone

\* set_reference: the clone when its samples are copied into the table.
ReferenceClone(reference) == To16Bits(ToSampleSize(pcm_clone(reference)))

\* set_reference: the samples copied from clone.data[].  A cell that was
\* never written is read as the arbitrary value g.
CopiedWave(data, g) ==
    Strict([i \in 1..PRO3_SAMPLE_SIZE |->
               IF Cell(data, i - 1) = Indet THEN g ELSE Cell(data, i - 1)])

\* set_reference(table, reference, num).
set_reference(table, reference, num, g) ==
    [ref |-> [table.ref EXCEPT ![num + 1] = CopiedWave(ReferenceClone(reference).data, g)],
     isset |-> [table.isset EXCEPT ![num + 1] = 1]]

\* wavetable_fill: the next index n >= c with a set waveform.
NextSet(isset, c) == CHOOSE n \in c..(PRO3_WAVES - 1) :
                        isset[n + 1] = 1 /\ \A k \in c..(n - 1) : isset[k + 1] # 1

FillIxFromZero(t, c) == t - c

\* wavetable_fill: ix of target t in the range that starts at c.
FillIx(t, c) == t - c + 1

\* wavetable_fill: one sample of a target, between low (slot c - 1) and high
\* (slot n).
Morph(low, high, scale) ==
    LET pcm_diff == FromInt(high - low)
        v == FAdd(FromInt(low), FMul(pcm_diff, scale))
    IN  FTrunc(v)

\* wavetable_fill: the body of the loop for one unset index c; every target
\* t in c..n-1 is written from slots c - 1 and n.
FillPass(ref, isset, c) ==
    LET n == NextSet(isset, c)
    IN  Strict([k \in 1..PRO3_WAVES |->
            IF c <= k - 1 /\ k - 1 < n
            THEN LET scale == FDiv(FromInt(FillIx(k - 1, c)), FromInt(n - c))
                 IN  Strict([i \in 1..PRO3_SAMPLE_SIZE |->
                                Morph(ref[c][i], ref[n + 1][i], scale)])
            ELSE ref[k]])

RECURSIVE FillFrom(_, _, _)
\* wavetable_fill: c++ after a pass; the 16 slots the pass has left are
\* complete before the next c is looked at.
FillOn(ref, isset, c) ==
    IF Len(ref) = PRO3_WAVES THEN FillFrom(ref, isset, c + 1) ELSE ref

\* wavetable_fill: the loop over c.
FillFrom(ref, isset, c) ==
    IF c >= 16 THEN ref
    ELSE IF isset[c + 1] = 0 /\ \E n \in c..(PRO3_WAVES - 1) : isset[n + 1] = 1
         THEN FillOn(FillPass(ref, isset, c), isset, c)
         ELSE FillFrom(ref, isset, c + 1)

FillLastSkipped(table) == table

\* wavetable_fill: the last position takes the first wave if it is not set.
FillLast(table) ==
    IF table.isset[PRO3_WAVES] = 0
    THEN [ref |-> [table.ref EXCEPT ![PRO3_WAVES] = table.ref[1]],
          isset |-> [table.isset EXCEPT ![PRO3_WAVES] = 1]]
    ELSE table

wavetable_fill(table) ==
    IF table.isset[1] = 0 THEN table
    ELSE LET t1 == FillLast(table)
         IN  [ref |-> FillFrom(t1.ref, t1.isset, 1), isset |-> t1.isset]

(***************************************************************************)
(* Sources handed to set_reference.                                        *)
(***************************************************************************)
\* Levels of the constant waveforms.
ConstLevels == {-32768, 2500, 32767}

ConstWave(a) ==
    set_pcm_data(new_PCMData, PRO3_SAMPLE_SIZE, [i \in 1..PRO3_SAMPLE_SIZE |-> a])

\* Waveforms that need no conversion: one waveform long, mono, 16 bits.
PlainSources == {pcm_gen_saw, pcm_gen_square} \cup {ConstWave(a) : a \in ConstLevels}

\* Slots the caller of the fill scenarios inserts at.
RefSlots == {0, 6, 15}

\* Sample k of a source of the given resolution: values around zero and at
\* both ends of the range (8-bit samples are unsigned).  The least 32-bit
\* value stands for a cell never written (Indet) and is not used as a sample.
SourceSample(res, k) ==
    LET half == 2 ^ (res - 2)
        max == (half - 1) * 2 + 1
        min == IF res = 32 THEN -max ELSE -max - 1
        cyc == <<min, -1, 0, 1, max, -half - 1, half + 1>>
        v == cyc[(k % 7) + 1]
    IN  IF res = 8 THEN v + 128 ELSE v

SourceSizes ==
    {0, 1, 2, 3, PRO3_SAMPLE_SIZE - 1, PRO3_SAMPLE_SIZE, PRO3_SAMPLE_SIZE + 1,
     2 * PRO3_SAMPLE_SIZE}

Source(size, channels, res) ==
    [size |-> size, channels |-> channels, resolution |-> res,
     data |-> [k \in 1..(size * channels) |-> SourceSample(res, k - 1)]]

AnySources == {Source(n, ch, r) : n \in SourceSizes, ch \in {1, 2}, r \in {8, 16, 24, 32}}

\* Short sources without the least value of their resolution.
InnerSource(size, channels, res) ==
    [size |-> size, channels |-> channels, resolution |-> res,
     data |-> [k \in 1..(size * channels) |-> SourceSample(res, k)]]

InnerSources == {InnerSource(n, ch, r) : n \in {1, 2, 3}, ch \in {1, 2}, r \in {8, 16, 24, 32}}

\* Values an uninitialised sample cell may turn out to hold.
StraySamples == {0, -21846}

(***************************************************************************)
(* wavetable_sysex_dump                                                    *)
(***************************************************************************)
\* pro3_wavetable.h:10 defines 176000 = 1375 * 128 cells for pro3_data[].
PCM_MAX == (1375 * PRO3_SAMPLE_SIZE) \div 8

\* pro3_data[dx++] = (sample) >> 8 on an int16_t sample: the arithmetic
\* shift of the promoted int, converted to the unsigned int cell.  A cell is
\* held as the signed integer with the same 32 bits, so a negative sample
\* leaves 0xFFFFFF80..0xFFFFFFFF, written here -128..-1.
HighCell(sample) == Int16(sample) \div 256

\* pro3_data[dx++] = (sample) & 0xff
LowCell(sample) == Int16(sample) % 256

\* The check word with the bytes left in place.
CheckWordUnswapped(sample) == Int16(sample) % 65536

\* ((uint16_t) sample >> 8) | ((uint16_t) sample << 8), as a uint16_t.
CheckWord(sample) ==
    LET u == Int16(sample) % 65536
    IN  (u \div 256) + (u % 256) * 256

\* One of the sample loops: the cells appended to pro3_data[] for pcm.
WaveCells(pcm) ==
    Strict([c \in 1..(2 * pcm.size) |->
               IF c % 2 = 1 THEN HighCell(Cell(pcm.data, (c - 1) \div 2))
               ELSE LowCell(Cell(pcm.data, (c - 1) \div 2))])

RECURSIVE WaveCheck(_, _)
\* One of the sample loops: the sum of the check words of samples 0..n-1.
WaveCheck(pcm, n) ==
    IF n = 0 THEN 0
    ELSE (WaveCheck(pcm, n - 1) + CheckWord(Cell(pcm.data, n - 1))) % 65536

\* The same loop run j times.
Times(cells, j) == Strict([c \in 1..(j * Len(cells)) |-> cells[((c - 1) % Len(cells)) + 1]])

\* The loops that follow the third pcm_change_size: the waveform eight times.
EighthCells(pcm) == Times(WaveCells(pcm), 8)

EighthCheck(pcm) == (8 * WaveCheck(pcm, pcm.size)) % 65536

\* The loops that follow the second pcm_change_size, and the rest.
QuarterCells(pcm) ==
    Times(WaveCells(pcm), 2) \o EighthCells(pcm_change_size(pcm, PRO3_SAMPLE_SIZE \div 8))

QuarterCheck(pcm) ==
    (2 * WaveCheck(pcm, pcm.size)
        + EighthCheck(pcm_change_size(pcm, PRO3_SAMPLE_SIZE \div 8))) % 65536

\* The loop that follows the first pcm_change_size, and the rest.
HalfCells(pcm) ==
    WaveCells(pcm) \o QuarterCells(pcm_change_size(pcm, PRO3_SAMPLE_SIZE \div 4))

HalfCheck(pcm) ==
    (WaveCheck(pcm, pcm.size)
        + QuarterCheck(pcm_change_size(pcm, PRO3_SAMPLE_SIZE \div 4))) % 65536

\* The body of the loop over k for the waveform pcm taken from the table.
FullCells(pcm) ==
    WaveCells(pcm) \o HalfCells(pcm_change_size(pcm, PRO3_SAMPLE_SIZE \div 2))

FullCheck(pcm) ==
    (WaveCheck(pcm, pcm.size)
        + HalfCheck(pcm_change_size(pcm, PRO3_SAMPLE_SIZE \div 2))) % 65536

\* PCMData pcm = new_PCMData(); set_pcm_data(&pcm, PRO3_SAMPLE_SIZE, table->ref[k]);
SlotPcm(table, k) == set_pcm_data(new_PCMData, PRO3_SAMPLE_SIZE, table.ref[k + 1])

RECURSIVE DumpCells(_, _)
\* pro3_data[0..dx-1] after the iterations 0..k-1 of the loop over k.
DumpCells(table, k) ==
    IF k = 0 THEN <<>>
    ELSE DumpCells(table, k - 1) \o FullCells(SlotPcm(table, k - 1))

RECURSIVE DumpCheck(_, _)
\* checksum after the iterations 0..k-1 of the loop over k.
DumpCheck(table, k) ==
    IF k = 0 THEN 0
    ELSE (DumpCheck(table, k - 1) + FullCheck(SlotPcm(table, k - 1))) % 65536

\* Seq_dump(data): the bytes putchar writes.
Seq_dump(data) == [i \in 1..data.size |-> data.value[i] % 256]

\* The caller's name: the characters before the terminating NUL and the size
\* in bytes of the array that holds them.
NameBuf(chars, cap) == [chars |-> chars, cap |-> cap]

RECURSIVE Padded(_)
\* while (strlen(name) < 8) strcat(name, " ");
Padded(chars) == IF Len(chars) < 8 THEN Padded(Append(chars, 32)) ELSE chars

\* strcat writes the terminating NUL of the padded name past the end of the
\* caller's array.
NameOverflow(name) == Len(name.chars) < 8 /\ name.cap < 9

\* printf("%.8s", name)
Printed8(chars) == SubSeq(chars, 1, IF Len(chars) < 8 THEN Len(chars) ELSE 8)

\* The bytes written before the name is padded.
DumpHeader(num) == <<240, 1, 49, 106, 108, 1, 107, num % 256>>

\* The bytes written after Seq_dump.
DumpTrailer(checksum) == <<checksum % 128, (checksum \div 256) % 128, 247>>

\* Everything wavetable_sysex_dump writes when it runs to its end.
DumpOutput(num, chars, sysex, checksum) ==
    DumpHeader(num) \o Printed8(Padded(chars)) \o <<0>> \o Seq_dump(sysex)
        \o DumpTrailer(checksum)

\* Tables a caller dumps: empty, or filled from one or two plain waveforms.
DumpTables ==
    {new_Wavetable}
        \cup {wavetable_fill(set_reference(new_Wavetable, a, 0, 0)) : a \in PlainSources}
        \cup {wavetable_fill(set_reference(set_reference(new_Wavetable, a, 0, 0), b, 15, 0)) :
                 a \in PlainSources, b \in PlainSources}

\* Names a caller passes: empty, short in an array of its own length, short
\* in a larger array, of 8 characters, and longer.
DumpNames ==
    {NameBuf(<<>>, 1), NameBuf(<<83, 97, 119>>, 4), NameBuf(<<83, 97, 119>>, 16),
     NameBuf(<<66, 97, 115, 115, 32, 48, 48, 49>>, 9),
     NameBuf(<<76, 111, 110, 103, 101, 114, 78, 97, 109, 101, 33>>, 12)}

DumpNums == {0, 15}

(***************************************************************************)
(* State of a program that builds a wavetable.                             *)
(*   table     the Wavetable                                               *)
(*   entry     the Wavetable as it was when the last call began            *)
(*   wtOp      the last call                                               *)
(*   wtNum     num of the last set_reference                               *)
(*   wtSrc     the caller's PCMData after the last set_reference, and      *)
(*   wtSrc0    as it was before it                                         *)
(*   wtClone   size and resolution of the clone the last set_reference     *)
(*             copied from                                                 *)
(***************************************************************************)
VARIABLES table, entry, wtOp, wtNum, wtSrc, wtSrc0, wtClone

wtVars == <<table, entry, wtOp, wtNum, wtSrc, wtSrc0, wtClone>>

NoClone == [size |-> 0, resolution |-> 0]

CloneShape(clone) == [size |-> clone.size, resolution |-> clone.resolution]

WtInit ==
    /\ table = new_Wavetable
    /\ entry = new_Wavetable
    /\ wtOp = "new_Wavetable"
    /\ wtNum = 0
    /\ wtSrc = new_PCMData
    /\ wtSrc0 = new_PCMData
    /\ wtClone = NoClone

NewWavetable ==
    /\ wtOp = "wavetable_fill"
    /\ table' = new_Wavetable
    /\ entry' = new_Wavetable
    /\ wtOp' = "new_Wavetable"
    /\ wtNum' = 0
    /\ wtSrc' = new_PCMData
    /\ wtSrc0' = new_PCMData
    /\ wtClone' = NoClone

\* set_reference(&table, &reference, num) for a reference among sources.
\* set_reference reads *reference only through pcm_clone, which does not
\* write to it.
SetReference(sources, slots) ==
    \E reference \in sources, num \in slots, g \in StraySamples :
        /\ table' = set_reference(table, reference, num, g)
        /\ entry' = table
        /\ wtOp' = "set_reference"
        /\ wtNum' = num
        /\ wtSrc0' = reference
        /\ wtSrc' = reference
        /\ wtClone' = CloneShape(ReferenceClone(reference))

\* The caller inserts plain waveforms until it fills the table; only the
\* table is kept of these calls.
InsertPlain ==
    /\ wtOp # "wavetable_fill"
    /\ \E reference \in PlainSources, num \in RefSlots :
          table' = set_reference(table, reference, num, 0)
    /\ entry' = new_Wavetable
    /\ wtOp' = "built"
    /\ UNCHANGED <<wtNum, wtSrc, wtSrc0, wtClone>>

Fill ==
    /\ wtOp # "wavetable_fill"
    /\ table' = wavetable_fill(table)
    /\ entry' = table
    /\ wtOp' = "wavetable_fill"
    /\ UNCHANGED <<wtNum, wtSrc, wtSrc0, wtClone>>

(***************************************************************************)
(* State of a program that dumps a wavetable.                              *)
(*   sink      the bytes written to the standard output                    *)
(*   payload   the UnpackedData the last dump handed to pack               *)
(*   nameBuf   the caller's name array, and                                *)
(*   name0     as it was before the last dump                              *)
(*   dumpNum   num of the last dump                                        *)
(*   checksumOut  checksum when the loops of the last dump had ended       *)
(***************************************************************************)
VARIABLES sink, payload, nameBuf, name0, dumpNum, checksumOut

dumpVars == <<sink, payload, nameBuf, name0, dumpNum, checksumOut>>

\* wavetable_sysex_dump(&table, num, name) with the unpacked data and the
\* checksum its loops have built.  Padding a short name in an array of fewer
\* than 9 bytes writes past the array: the call may run on, or end the
\* program at the strcat, after the slot number byte.  The unpacked data
\* fill 96 of every 125 cells of a value array and their packed form under
\* 110, so that Seq_set and pack stay inside the arrays.
Dumped(num, name, pro3_wavetable, checksum) ==
    /\ payload' = pro3_wavetable
    /\ checksumOut' = checksum
    /\ dumpNum' = num
    /\ name0' = name
    /\ entry' = table
    /\ table' = table
    /\ \/ /\ sink' = sink \o DumpOutput(num, name.chars, pack(pro3_wavetable), checksum)
          /\ nameBuf' = NameBuf(Padded(name.chars), name.cap)
          /\ wtOp' = "wavetable_sysex_dump"
       \/ /\ NameOverflow(name)
          /\ sink' = sink \o DumpHeader(num)
          /\ nameBuf' = name
          /\ wtOp' = "fault"
    /\ UNCHANGED <<wtNum, wtSrc, wtSrc0, wtClone>>

PayloadOf(cells) == Seq_set(Len(cells), cells)

SysexDump ==
    /\ wtOp = "built"
    /\ \E num \in DumpNums, name \in DumpNames :
          Dumped(num, name, PayloadOf(DumpCells(table, 16)), DumpCheck(table, 16))

DumpIdle ==
    /\ sink = <<>>
    /\ payload = EmptyData
    /\ nameBuf = NameBuf(<<>>, 1)
    /\ name0 = NameBuf(<<>>, 1)
    /\ dumpNum = 0
    /\ checksumOut = 0

(***************************************************************************)
(* get_wav_meta and wav_extract                                            *)
(***************************************************************************)
\* Byte k of the little-endian form of x.
ByteLE(x, k) == (x \div (256 ^ k)) % 256

\* A canonical WAV stream: RIFF header, "fmt " at 12 with c channels and r
\* bits at 44100 Hz, "data" at 36 with the length L, then the bytes after the
\* header.
WavHeader(c, r, L) ==
    <<82, 73, 70, 70>> \o [k \in 1..4 |-> ByteLE(36 + L, k - 1)]
        \o <<87, 65, 86, 69, 102, 109, 116, 32, 16, 0, 0, 0, 1, 0, c, 0, 68, 172, 0, 0>>
        \o [k \in 1..4 |-> ByteLE(44100 * c * (r \div 8), k - 1)]
        \o <<c * (r \div 8), 0, r, 0, 100, 97, 116, 97>>
        \o [k \in 1..4 |-> ByteLE(L, k - 1)]

\* Byte k of the bytes after the header: values on both sides of 0x80.
BodyByte(k) == <<0, 1, 127, 128, 255, 2, 129>>[(k % 7) + 1]

Body(n) == [k \in 1..n |-> BodyByte(k - 1)]

\* What the caller knows of a stream: how it was built.
Shape(kind, c, r, L) == [kind |-> kind, channels |-> c, resolution |-> r, length |-> L]

\* A stream with its shape.
Wav(shape, bytes) == [shape |-> shape, bytes |-> bytes]

\* Lengths of the data chunk, in bytes.
DataLens == {0, 4, 8, 12}

\* Canonical streams: the data chunk and nothing after it, the data chunk
\* and 3 more bytes, and a file cut 300 bytes short of its data chunk.
CanonicalWavs ==
    {Wav(Shape("canonical", c, r, L), WavHeader(c, r, L) \o Body(L + x)) :
        c \in {1, 2}, r \in {8, 16, 24, 32}, L \in DataLens, x \in {0, 3}}
    \cup {Wav(Shape("canonical", c, 16, 304), WavHeader(c, 16, 304) \o Body(4)) : c \in {1, 2}}

\* The stream s with the byte at index i (from 0) replaced by b.
Patched(s, i, b) == [s EXCEPT ![i + 1] = b]

\* Streams without a chunk identifier: cut before the identifiers, or with
\* "fmt " or "data" or both spoilt; a header with no byte after it; and a
\* stream that declares no channels.
BrokenWavs ==
    {Wav(Shape("cut before fmt", 1, 16, 4), SubSeq(WavHeader(1, 16, 4), 1, n)) : n \in {0, 12}}
    \cup {Wav(Shape("header only", 1, 16, 0), WavHeader(1, 16, 0))}
    \cup {Wav(Shape("no fmt", c, r, 4), Patched(WavHeader(c, r, 4) \o Body(4 + x), 14, 120)) :
             c \in {1, 2}, r \in {8, 16}, x \in {0, 3}}
    \cup {Wav(Shape("no data", c, r, 4), Patched(WavHeader(c, r, 4) \o Body(4 + x), 38, 120)) :
             c \in {1, 2}, r \in {8, 16}, x \in {0, 3}}
    \cup {Wav(Shape("no fmt, no data", 1, 16, 4),
              Patched(Patched(WavHeader(1, 16, 4) \o Body(4 + x), 14, 120), 38, 120)) :
             x \in {0, 3}}
    \cup {Wav(Shape("no channels", 0, 16, 4), WavHeader(0, 16, 4) \o Body(4))}

\* Values a cell outside the stream, or an uninitialised field, may hold.
StrayBytes == {0, 85}

\* char b = data[i]: a char is signed in some builds and unsigned in others.
CharOf(v, signedChar) ==
    IF signedChar /\ v % 256 >= 128 THEN (v % 256) - 256 ELSE v % 256

\* data[i] of the caller's array: a cell past the stream holds the stray g.
WavCell(bytes, i, g) == IF i < Len(bytes) THEN bytes[i + 1] ELSE g

\* char fcid[] = "fmt " and char dcid[] = "data", with the closing NUL.
fcid == <<102, 109, 116, 32, 0>>

dcid == <<100, 97, 116, 97, 0>>

\* id[x]: past the 5 chars of the array it is the stray g.
IdChar(id, x, g) == IF x < 5 THEN id[x + 1] ELSE g

\* get_wav_meta: the locals before the loop.
ScanInit ==
    [fcx |-> 0, dcx |-> 0, channels |-> 0, resolution |-> 0, d_st |-> 0, d_end |-> 0,
     stop |-> FALSE]

\* get_wav_meta: d_end for "data" ending at index i.
DataEnd(bytes, i, g) ==
    i + 5 + WavCell(bytes, i + 1, g) + WavCell(bytes, i + 2, g) * 256
        + WavCell(bytes, i + 3, g) * 65536 + WavCell(bytes, i + 4, g) * 16777216

\* get_wav_meta: the locals after the format half of iteration i.
FmtStep(st, bytes, i, b, g) ==
    IF b = IdChar(fcid, st.fcx, g) /\ st.channels = 0
    THEN [st EXCEPT
            !.channels = IF st.fcx = 3 /\ i + 7 < Len(bytes) THEN bytes[i + 8] ELSE @,
            !.resolution = IF st.fcx = 3 /\ i + 19 < Len(bytes) THEN bytes[i + 20] ELSE @,
            !.fcx = @ + 1]
    ELSE [st EXCEPT !.fcx = 0]

\* get_wav_meta: the locals after the data half of iteration i.
DataStep(st, bytes, i, b, g) ==
    IF b = IdChar(dcid, st.dcx, g) /\ st.d_end = 0
    THEN [st EXCEPT
            !.d_st = IF st.dcx = 3 THEN i + 5 ELSE @,
            !.d_end = IF st.dcx = 3 THEN DataEnd(bytes, i, g) ELSE @,
            !.dcx = @ + 1]
    ELSE [st EXCEPT !.dcx = 0]

\* get_wav_meta: the break at the end of an iteration.
BreakStep(st) ==
    [st EXCEPT !.stop = st.d_st # 0 /\ st.d_end # 0 /\ st.channels # 0 /\ st.resolution # 0]

\* get_wav_meta: iteration i of the loop.
ScanStep(st, bytes, i, g, signedChar) ==
    BreakStep(DataStep(FmtStep(st, bytes, i, CharOf(bytes[i + 1], signedChar), g),
                       bytes, i, CharOf(bytes[i + 1], signedChar), g))

RECURSIVE Scan(_, _, _, _, _)
\* get_wav_meta: the loop from index i.
Scan(st, bytes, i, g, signedChar) ==
    IF i >= Len(bytes) \/ st.stop THEN st
    ELSE Scan(ScanStep(st, bytes, i, g, signedChar), bytes, i + 1, g, signedChar)

WAVMeta(d_st, d_end, samples, channels, resolution) ==
    [data_start |-> d_st, data_end |-> d_end, samples |-> samples,
     channels |-> channels, resolution |-> resolution]

\* get_wav_meta for a stream of more than 44 bytes, from the locals st the
\* loop has left; resolution / 8 is not 0.
MetaOf(st) ==
    WAVMeta(st.d_st, st.d_end, (st.d_end - st.d_st) \div (st.resolution \div 8),
            st.channels, st.resolution)

\* get_wav_meta when the division is by 0 and the program runs on: samples
\* is the stray g.
MetaNoSamples(st, g) == WAVMeta(st.d_st, st.d_end, g, st.channels, st.resolution)

\* get_wav_meta for a stream of 44 bytes or fewer: meta is returned as it
\* was declared, every field the stray g.
MetaUnset(g) == WAVMeta(g, g, g, g, g)

\* x + y of two 32-bit ints, the carry out of the word lost.
Add32(x, y) ==
    LET lo == (x % 65536) + (y % 65536)
        hi == (x \div 65536) + (y \div 65536) + (lo \div 65536)
    IN  (((hi + 32768) % 65536) - 32768) * 65536 + (lo % 65536)

\* wav_extract: b << (bn * 8)
ByteShifted(b, bn) == IF bn = 0 THEN b ELSE ShiftLeft(b, bn * 8)

\* wav_extract: bytes per sample.
SampleBytesOf(meta) == meta.resolution \div 8

\* wav_extract: dx before the first read.
FirstIndex(meta, start) == meta.data_start + start * SampleBytesOf(meta)

\* wav_extract: the index read for byte bn of output cell j, reads being
\* made as long as dx <= data_end.
ReadIndex(meta, start, j, bn) == FirstIndex(meta, start) + j * SampleBytesOf(meta) + bn

\* wav_extract: if (dx <= meta.data_end)
ReadAllowed(meta, dx) == dx <= meta.data_end

RECURSIVE ExtractSample(_, _, _, _, _, _, _)
\* wav_extract: sample after the bytes 0..bn-1 of output cell j.
ExtractSample(meta, bytes, start, j, bn, g, signedChar) ==
    IF bn = 0 THEN 0
    ELSE IF ReadAllowed(meta, ReadIndex(meta, start, j, bn - 1))
         THEN Add32(ExtractSample(meta, bytes, start, j, bn - 1, g, signedChar),
                    ByteShifted(CharOf(WavCell(bytes, ReadIndex(meta, start, j, bn - 1), g),
                                       signedChar), bn - 1))
         ELSE ExtractSample(meta, bytes, start, j, bn - 1, g, signedChar)

\* wav_extract: pcm_data[0..ix-1].
ExtractData(meta, bytes, start, samples, g, signedChar) ==
    Strict([j \in 1..(samples * meta.channels) |->
               ExtractSample(meta, bytes, start, j - 1, SampleBytesOf(meta), g, signedChar)])

\* wav_extract: the indices of data[] that are read.
ExtractReads(meta, start, samples) ==
    {dx \in FirstIndex(meta, start)..
            (FirstIndex(meta, start) + samples * meta.channels * SampleBytesOf(meta) - 1) :
        ReadAllowed(meta, dx)}

\* wav_extract: the PCMData returned, channels not 0.
wav_extract(meta, bytes, start, samples, g, signedChar) ==
    set_pcm_data([pcm_change_resolution(new_PCMData, meta.resolution)
                     EXCEPT !.channels = meta.channels],
                 samples * meta.channels,
                 ExtractData(meta, bytes, start, samples, g, signedChar))

(***************************************************************************)
(* State of a program that reads a WAV stream.                             *)
(*   wav        the stream, with the way it was built                      *)
(*   signedChar char is a signed type in this build                        *)
(*   meta       the WAVMeta get_wav_meta returned                          *)
(*   wavOp      the last call                                              *)
(*   wavArgs    start and samples of the last wav_extract                  *)
(*   wavPcm     the PCMData wav_extract returned                           *)
(*   wavReads   the indices of the stream the last wav_extract read        *)
(***************************************************************************)
VARIABLES wav, signedChar, meta, wavOp, wavArgs, wavPcm, wavReads

wavVars == <<wav, signedChar, meta, wavOp, wavArgs, wavPcm, wavReads>>

NoArgs == [start |-> 0, samples |-> 0]

\* The caller holds a stream; nothing has been called yet.
WavInit ==
    /\ wav \in CanonicalWavs \cup BrokenWavs
    /\ signedChar \in BOOLEAN
    /\ meta = WAVMeta(0, 0, 0, 0, 0)
    /\ wavOp = "loaded"
    /\ wavArgs = NoArgs
    /\ wavPcm = new_PCMData
    /\ wavReads = {}

\* get_wav_meta on a stream of more than 44 bytes, from the locals st the
\* loop has left.  The division by resolution / 8 = 0 is undefined: it ends
\* the program or leaves any value in samples.
MetaScanned(st, g) ==
    \/ /\ st.resolution \div 8 # 0
       /\ meta' = MetaOf(st)
       /\ wavOp' = "get_wav_meta"
    \/ /\ st.resolution \div 8 = 0
       /\ meta' = MetaNoSamples(st, g)
       /\ wavOp' = "get_wav_meta"
    \/ /\ st.resolution \div 8 = 0
       /\ meta' = meta
       /\ wavOp' = "get_wav_meta fault"

\* meta = get_wav_meta(size, data) with the whole stream.  For 44 bytes or
\* fewer the WAVMeta is returned without any field having been assigned.
GetWavMeta ==
    /\ wavOp = "loaded"
    /\ \E g \in StrayBytes :
          IF Len(wav.bytes) > 44
          THEN MetaScanned(Scan(ScanInit, wav.bytes, 0, g, signedChar), g)
          ELSE meta' = MetaUnset(g) /\ wavOp' = "get_wav_meta"
    /\ UNCHANGED <<wav, signedChar, wavArgs, wavPcm, wavReads>>

\* Values of samples: few, the count in meta, and one more.
ExtractCounts ==
    {n \in {0, 1, 2, 3, meta.samples, meta.samples + 1} :
        n * meta.channels <= PCM_PROC_MAX}

\* pcm = wav_extract(meta, data, start, samples) with the meta of the
\* stream, for a resolution of at most 32 and no more cells than pcm_data[]
\* holds.  With no channels set_pcm_data divides by 0: the program ends or
\* any value is left in size.
WavExtract ==
    /\ wavOp = "get_wav_meta"
    /\ meta.resolution <= 32
    /\ \E start \in {0, 1, 2}, samples \in ExtractCounts, g \in StrayBytes :
          /\ wavArgs' = [start |-> start, samples |-> samples]
          /\ wavReads' = ExtractReads(meta, start, samples)
          /\ \/ /\ meta.channels # 0
                /\ wavPcm' = wav_extract(meta, wav.bytes, start, samples, g, signedChar)
                /\ wavOp' = "wav_extract"
             \/ /\ meta.channels = 0
                /\ wavPcm' = [new_PCMData EXCEPT !.channels = 0, !.size = g]
                /\ wavOp' = "wav_extract"
             \/ /\ meta.channels = 0
                /\ wavPcm' = wavPcm
                /\ wavOp' = "wav_extract fault"
    /\ UNCHANGED <<wav, signedChar, meta>>

WavIdle ==
    /\ wav = Wav(Shape("none", 0, 0, 0), <<>>)
    /\ signedChar = TRUE
    /\ meta = WAVMeta(0, 0, 0, 0, 0)
    /\ wavOp = "idle"
    /\ wavArgs = NoArgs
    /\ wavPcm = new_PCMData
    /\ wavReads = {}

(***************************************************************************)
(* State of a program that converts a PCM buffer.                          *)
(*   pcm        the PCMData                                                *)
(*   pcmWas     the PCMData as it was when the last call began             *)
(*   pcmOrig    the PCMData before the first call                          *)
(*   pcmCalls   the calls made on it, each with its argument               *)
(***************************************************************************)
VARIABLES pcm, pcmWas, pcmOrig, pcmCalls

pcmVars == <<pcm, pcmWas, pcmOrig, pcmCalls>>

\* Values of new_resolution: the four resolutions and one out of range.
Resolutions == {8, 16, 24, 32, 40}

\* Values of new_size: none, few, fractions and multiples of a waveform, the
\* size the buffer has, the size before its last call and more than fits.
NewSizes ==
    {0, 1, 2, 3, PRO3_SAMPLE_SIZE \div 2, PRO3_SAMPLE_SIZE, 2 * PRO3_SAMPLE_SIZE,
     pcm.size, pcmWas.size, PCM_PROC_MAX + 1}

Call(op, arg) == [op |-> op, arg |-> arg]

\* The buffer holds any source; no call has been made.
PcmInit ==
    /\ pcm \in AnySources \cup InnerSources
    /\ pcmWas = pcm
    /\ pcmOrig = pcm
    /\ pcmCalls = <<>>

\* No cell has become the value that stands for a cell never written.
NoneLost(before, after) ==
    \A i \in 1..Len(after.data) : after.data[i] = Indet => Cell(before.data, i - 1) = Indet

\* pcm_change_resolution(&pcm, new_resolution), the first or second call.
PcmChangeResolution ==
    /\ Len(pcmCalls) < 2
    /\ \A k \in 1..Len(pcmCalls) : pcmCalls[k].op # "fault"
    /\ \E new_resolution \in Resolutions :
          /\ NoneLost(pcm, pcm_change_resolution(pcm, new_resolution))
          /\ pcm' = pcm_change_resolution(pcm, new_resolution)
          /\ pcmCalls' = Append(pcmCalls, Call("pcm_change_resolution", new_resolution))
    /\ pcmWas' = pcm
    /\ UNCHANGED pcmOrig

\* pcm_change_size(&pcm, new_size), the first or second call.  A call that
\* writes past the end of expanded_data[] may run on as if the array were
\* longer, or end the program.
PcmChangeSize ==
    /\ Len(pcmCalls) < 2
    /\ \A k \in 1..Len(pcmCalls) : pcmCalls[k].op # "fault"
    /\ \E new_size \in NewSizes :
          \/ /\ pcm' = pcm_change_size(pcm, new_size)
             /\ pcmCalls' = Append(pcmCalls, Call("pcm_change_size", new_size))
          \/ /\ SizeOverrun(pcm, new_size)
             /\ pcm' = pcm
             /\ pcmCalls' = Append(pcmCalls, Call("fault", new_size))
    /\ pcmWas' = pcm
    /\ UNCHANGED pcmOrig

\* Values of new_amplitude: 0, 1/2, 4/5, 1 and 2.
Amplitudes ==
    {FZero, FDiv(FromInt(1), FromInt(2)), FDiv(FromInt(4), FromInt(5)), FromInt(1), FromInt(2)}

\* pcm_normalize(&pcm, new_amplitude) as the first call.
PcmNormalize ==
    /\ pcmCalls = <<>>
    /\ \E new_amplitude \in Amplitudes :
          /\ pcm' = pcm_normalize(pcm, new_amplitude)
          /\ pcmCalls' = <<Call("pcm_normalize", new_amplitude)>>
    /\ pcmWas' = pcm
    /\ UNCHANGED pcmOrig

PcmIdle ==
    /\ pcm = new_PCMData
    /\ pcmWas = new_PCMData
    /\ pcmOrig = new_PCMData
    /\ pcmCalls = <<>>

(***************************************************************************)
(* The 6502 routine Pack of sequential_packing.asm                         *)
(***************************************************************************)
\* Packets of the largest source region.
AsmPackets == 3

Lo(x) == x % 256

Hi(x) == x \div 256

\* A 16-bit address moved on by n.
Moved(addr, n) == (addr + n) % 65536

\* The machine's memory as far as Pack reads it: a source region of bytes
\* at base, every other cell holding rest.  stride is the distance between
\* the first bytes of two packets of the region, last the offset from base
\* of the address the caller puts in END, data the address put in DATA.
Ram(base, bytes, rest, stride, last, data) ==
    [base |-> base, bytes |-> bytes, rest |-> rest, stride |-> stride,
     last |-> last, data |-> data]

\* lda (START),y
Peek(ram, addr) ==
    IF ram.base <= addr /\ addr < ram.base + Len(ram.bytes)
    THEN ram.bytes[addr - ram.base + 1]
    ELSE ram.rest

\* Prepare: SRC[0..7] after the loop, copied from START on.
Prepare(ram, start) == [y \in 1..8 |-> Peek(ram, Moved(start, y - 1))]

\* Pack, loop: asl sets the carry from bit 7 of the source byte, ror DEST
\* moves it into bit 7 of the pack byte, lsr gives the byte without bit 7.
PackBit(dest, src, y) ==
    [dest EXCEPT ![1] = (src[y + 1] \div 128) * 128 + (dest[1] \div 2),
                 ![y + 2] = ((2 * src[y + 1]) % 256) \div 2]

RECURSIVE PackBits(_, _, _)
\* Pack, loop: DEST[0..7] after the bytes y..6.
PackBits(dest, src, y) ==
    IF y = 7 THEN dest ELSE PackBits(PackBit(dest, src, y), src, y + 1)

\* Pack: sta DEST with the accumulator, the loop, then lsr DEST.
PackPacket(dest, src, a) ==
    LET d == PackBits([dest EXCEPT ![1] = a], src, 0)
    IN  [d EXCEPT ![1] = d[1] \div 2]

\* Xscribe, ch_end: the start pointer has reached the end pointer, page
\* first, then byte.
ReachedEnd(start, end) == Hi(start) >= Hi(end) /\ Lo(start) >= Lo(end)

RECURSIVE XscribeLoop(_, _, _, _, _)
\* Xscribe: the loop from index y on.  st holds START, DATA and the writes
\* made; the result holds them with A, Y and the carry at rts.
XscribeLoop(st, dest, end, size, y) ==
    LET w == Append(st.written, <<Moved(st.DATA, y), dest[y + 1]>>)
        s == Moved(st.START, 1)
    IN  IF ReachedEnd(s, end)
        THEN [START |-> s, DATA |-> st.DATA, written |-> w, C |-> 1, Y |-> y, A |-> Lo(s)]
        ELSE IF y + 1 = size
             THEN [START |-> s, DATA |-> Moved(st.DATA, size), written |-> w,
                   C |-> 0, Y |-> y + 1, A |-> Lo(st.DATA + size)]
             ELSE XscribeLoop([st EXCEPT !.START = s, !.written = w], dest, end, size, y + 1)

\* Xscribe called with Y = size.
Xscribe(start, data, written, dest, end, size) ==
    XscribeLoop([START |-> start, DATA |-> data, written |-> written], dest, end, size, 0)

\* Source bytes with their 0x80 bits mixed, no two packets alike.
AsmBytes(n, v) == [i \in 1..n |-> (v + 37 * i) % 256]

\* Regions of k packets of 7 bytes, END one past the last byte or at the
\* last byte, and regions that hold a packet every 8 bytes; START and DATA
\* inside a page and close to its end.
AsmRams ==
    {Ram(base, AsmBytes(stride * k, v), rest, stride, stride * k - short, data) :
        base \in {8192, 8442}, data \in {12288, 12540}, v \in {0, 200}, rest \in {0, 255},
        stride \in {7, 8}, k \in 1..AsmPackets, short \in {0, 1}}

(***************************************************************************)
(* State of a 6502 that runs Pack.                                         *)
(*   ram      the memory Pack reads and the caller's pointers              *)
(*   cpu      the registers A and Y, the carry C, the zero page cells      *)
(*            START, END, DATA, SIZE, SRC and DEST, and the place pc       *)
(*   written  the writes made through (DATA),y: address and byte, in order *)
(***************************************************************************)
VARIABLES ram, cpu, written

asmVars == <<ram, cpu, written>>

NoPacket == <<0, 0, 0, 0, 0, 0, 0, 0>>

\* jsr Pack with the caller's pointers in START, END and DATA.
AsmInit ==
    /\ ram \in AsmRams
    /\ \E g \in {0, 255} :
          cpu = [pc |-> "Pack", A |-> g, Y |-> g, C |-> 0, SIZE |-> g,
                 START |-> ram.base, END |-> Moved(ram.base, ram.last), DATA |-> ram.data,
                 SRC |-> [y \in 1..8 |-> g], DEST |-> [y \in 1..8 |-> g]]
    /\ written = <<>>

\* Pack: jsr Prepare.  The loop ends with Y = $ff and SRC[0] in A.
AsmPrepare ==
    /\ cpu.pc = "Pack"
    /\ cpu' = [cpu EXCEPT !.SRC = Prepare(ram, cpu.START),
                          !.A = Peek(ram, cpu.START), !.Y = 255, !.pc = "loop"]
    /\ UNCHANGED <<ram, written>>

\* Pack: ldy #0, sta DEST, the loop over 7 bytes and lsr DEST, which leaves
\* bit 7 of the first pack byte in the carry.
AsmPack ==
    /\ cpu.pc = "loop"
    /\ cpu' = [cpu EXCEPT !.DEST = PackPacket(cpu.DEST, cpu.SRC, cpu.A),
                          !.A = cpu.SRC[7] % 128, !.Y = 7, !.C = cpu.A \div 128,
                          !.pc = "Xscribe"]
    /\ UNCHANGED <<ram, written>>

\* The cpu when Xscribe has returned st and bcc Pack is done.
AfterXscribe(st) ==
    [cpu EXCEPT !.START = st.START, !.DATA = st.DATA, !.C = st.C, !.Y = st.Y, !.A = st.A,
                !.SIZE = 8,
                !.pc = IF st.C = 0 THEN "Pack" ELSE "rts"]

\* Pack: ldy #8, jsr Xscribe, bcc Pack, rts.
AsmXscribe ==
    /\ cpu.pc = "Xscribe"
    /\ cpu' = AfterXscribe(Xscribe(cpu.START, cpu.DATA, written, cpu.DEST, cpu.END, 8))
    /\ written' = Xscribe(cpu.START, cpu.DATA, written, cpu.DEST, cpu.END, 8).written
    /\ UNCHANGED ram

AsmIdle ==
    /\ ram = Ram(0, <<>>, 0, 7, 0, 0)
    /\ cpu = [pc |-> "idle", A |-> 0, Y |-> 0, C |-> 0, SIZE |-> 0, START |-> 0, END |-> 0,
              DATA |-> 0, SRC |-> NoPacket, DEST |-> NoPacket]
    /\ written = <<>>

\* Idle values of the other component's variables.
SeqIdle ==
    /\ unpacked = EmptyData
    /\ packed = EmptyData
    /\ result = EmptyData
    /\ seqOp = "idle"
    /\ fromPack = FALSE
    /\ seqOob = 0

WtIdle ==
    /\ table = new_Wavetable
    /\ entry = new_Wavetable
    /\ wtOp = "idle"
    /\ wtNum = 0
    /\ wtSrc = new_PCMData
    /\ wtSrc0 = new_PCMData
    /\ wtClone = NoClone

vars == <<seqVars, wtVars, dumpVars, pcmVars, wavVars, asmVars>>

SeqNext ==
    \/ Pack /\ UNCHANGED <<wtVars, dumpVars, pcmVars, wavVars, asmVars>>
    \/ Unpack /\ UNCHANGED <<wtVars, dumpVars, pcmVars, wavVars, asmVars>>

\* The codec alone: the wavetable stays idle.
SeqStart == SeqInit /\ WtIdle /\ DumpIdle /\ PcmIdle /\ WavIdle /\ AsmIdle

SpecSeq == SeqStart /\ [][SeqNext]_vars

WtNext ==
    \/ NewWavetable /\ UNCHANGED <<seqVars, dumpVars, pcmVars, wavVars, asmVars>>
    \/ InsertPlain /\ UNCHANGED <<seqVars, dumpVars, pcmVars, wavVars, asmVars>>
    \/ Fill /\ UNCHANGED <<seqVars, dumpVars, pcmVars, wavVars, asmVars>>

\* The wavetable alone: the codec stays idle.
WtStart == WtInit /\ SeqIdle /\ DumpIdle /\ PcmIdle /\ WavIdle /\ AsmIdle

SpecWT == WtStart /\ [][WtNext]_vars

\* A table holding at most one waveform, and one call of set_reference on it
\* with any source and slot.
RefInit ==
    /\ \/ table = new_Wavetable
       \/ \E k \in RefSlots : table = set_reference(new_Wavetable, pcm_gen_saw, k, 0)
    /\ entry = new_Wavetable
    /\ wtOp = "built"
    /\ wtNum = 0
    /\ wtSrc = new_PCMData
    /\ wtSrc0 = new_PCMData
    /\ wtClone = NoClone

InsertAny == wtOp = "built" /\ SetReference(AnySources, Slots)

RefNext == InsertAny /\ UNCHANGED <<seqVars, dumpVars, pcmVars, wavVars, asmVars>>

RefStart == RefInit /\ SeqIdle /\ DumpIdle /\ PcmIdle /\ WavIdle /\ AsmIdle

SpecRef == RefStart /\ [][RefNext]_vars

\* A built table, and one call of wavetable_sysex_dump on it.
DumpInit ==
    /\ table \in DumpTables
    /\ entry = table
    /\ wtOp = "built"
    /\ wtNum = 0
    /\ wtSrc = new_PCMData
    /\ wtSrc0 = new_PCMData
    /\ wtClone = NoClone
    /\ DumpIdle

DumpNext == SysexDump /\ UNCHANGED <<seqVars, pcmVars, wavVars, asmVars>>

DumpStart == DumpInit /\ SeqIdle /\ PcmIdle /\ WavIdle /\ AsmIdle

SpecDump == DumpStart /\ [][DumpNext]_vars

PcmNext ==
    \/ PcmChangeResolution /\ UNCHANGED <<seqVars, wtVars, dumpVars, wavVars, asmVars>>
    \/ PcmChangeSize /\ UNCHANGED <<seqVars, wtVars, dumpVars, wavVars, asmVars>>

\* A PCM buffer alone, and up to two conversions of it.
PcmStart == PcmInit /\ SeqIdle /\ WtIdle /\ DumpIdle /\ WavIdle /\ AsmIdle

SpecPcm == PcmStart /\ [][PcmNext]_vars

NormNext == PcmNormalize /\ UNCHANGED <<seqVars, wtVars, dumpVars, wavVars, asmVars>>

\* A PCM buffer alone, and one call of pcm_normalize on it.
NormStart == PcmInit /\ SeqIdle /\ WtIdle /\ DumpIdle /\ WavIdle /\ AsmIdle

SpecNorm == NormStart /\ [][NormNext]_vars

WavNext ==
    \/ GetWavMeta /\ UNCHANGED <<seqVars, wtVars, dumpVars, pcmVars, asmVars>>
    \/ WavExtract /\ UNCHANGED <<seqVars, wtVars, dumpVars, pcmVars, asmVars>>

\* A WAV stream alone: its metadata, then one extraction.
WavStart == WavInit /\ SeqIdle /\ WtIdle /\ DumpIdle /\ PcmIdle /\ AsmIdle

SpecWav == WavStart /\ [][WavNext]_vars

AsmNext ==
    \/ AsmPrepare /\ UNCHANGED <<seqVars, wtVars, dumpVars, pcmVars, wavVars>>
    \/ AsmPack /\ UNCHANGED <<seqVars, wtVars, dumpVars, pcmVars, wavVars>>
    \/ AsmXscribe /\ UNCHANGED <<seqVars, wtVars, dumpVars, pcmVars, wavVars>>

\* A 6502 alone, from jsr Pack to its rts.
AsmStart == AsmInit /\ SeqIdle /\ WtIdle /\ DumpIdle /\ PcmIdle /\ WavIdle

SpecAsm == AsmStart /\ [][AsmNext]_vars

(***************************************************************************)
(* Claims about wavetable_fill and set_reference.                          *)
(***************************************************************************)

\* Exactly the slots of set are marked set in the table t.
SetSlots(t, set) == \A k \in Slots : t.isset[k + 1] = (IF k \in set THEN 1 ELSE 0)

\* Every sample of slot k of the table t is a.
ConstSlot(t, k, a) == \A i \in 1..PRO3_SAMPLE_SIZE : t.ref[k + 1][i] = a

\* C7: after wavetable_fill returns, if slot 0 was set on entry then all 16
\* slots are marked set, and if slot 0 was not set on entry then every ref
\* sample and every isset flag is as it was before the call.
C7_FillSetsAllOrNothing ==
    wtOp = "wavetable_fill" =>
        IF entry.isset[1] = 1
        THEN \A k \in Slots : table.isset[k + 1] = 1
        ELSE table = entry

\* C8: on a table in which only slot 0 has been set, to a waveform W,
\* wavetable_fill leaves every one of the 16 slots equal to W sample for
\* sample.
C8_SingleWaveFillsAll ==
    (wtOp = "wavetable_fill" /\ SetSlots(entry, {0})) =>
        \A k \in Slots : table.ref[k + 1] = entry.ref[1]

\* Slot 0 alone held a waveform that is not constant, and the fill ran.
C8_Witness ==
    /\ wtOp = "wavetable_fill"
    /\ SetSlots(entry, {0})
    /\ \E i, j \in 1..PRO3_SAMPLE_SIZE : entry.ref[1][i] # entry.ref[1][j]
    /\ table.ref[9] = entry.ref[1]

\* The fill ran on a table with exactly slots 0 and 15 set, to the constant
\* waveforms of values A and B.
FilledBetween(A, B) ==
    /\ wtOp = "wavetable_fill"
    /\ SetSlots(entry, {0, 15})
    /\ ConstSlot(entry, 0, A)
    /\ ConstSlot(entry, 15, B)

\* C9 as stated: with exactly slots 0 and 15 set to distinct constant
\* waveforms A and B, every sample of slot 8 after wavetable_fill is within 1
\* of the midpoint (A + B) / 2.
C9_Slot8IsMidpoint ==
    \A A, B \in ConstLevels :
        (A # B /\ FilledBetween(A, B)) =>
            \A i \in 1..PRO3_SAMPLE_SIZE : Abs(2 * table.ref[9][i] - (A + B)) <= 2

\* C9 amended: with exactly slots 0 and 15 set to distinct constant
\* waveforms A and B, every sample of slot 8 after wavetable_fill is within 6
\* of A + (B - A) * 8 / 14, the point 8/14 of the way from A to B.
C9_Slot8IsEightFourteenths ==
    \A A, B \in ConstLevels :
        (A # B /\ FilledBetween(A, B)) =>
            \A i \in 1..PRO3_SAMPLE_SIZE :
                Abs(7 * table.ref[9][i] - (7 * A + 4 * (B - A))) < 42

C9_Witness == FilledBetween(-32768, 32767) /\ table.ref[9][1] # -32768

\* C10: for every source and slot num, set_reference copies from a clone of
\* size PRO3_SAMPLE_SIZE and resolution 16, sets isset[num], and leaves the
\* caller's source and every other slot's samples and flag unchanged.
C10_SetReferenceNormalises ==
    wtOp = "set_reference" =>
        /\ wtClone.size = PRO3_SAMPLE_SIZE
        /\ wtClone.resolution = 16
        /\ table.isset[wtNum + 1] = 1
        /\ wtSrc = wtSrc0
        /\ \A k \in Slots \ {wtNum} :
              /\ table.ref[k + 1] = entry.ref[k + 1]
              /\ table.isset[k + 1] = entry.isset[k + 1]

(***************************************************************************)
(* Claims about wavetable_sysex_dump.                                      *)
(***************************************************************************)
\* The samples of wave at the indices 0, step, 2 * step, ...
Decimation(wave, step) ==
    [j \in 1..(PRO3_SAMPLE_SIZE \div step) |-> wave[(j - 1) * step + 1]]

\* Every sample of wave as the high byte, then the low byte, of its 16-bit
\* value.
SampleBytes(wave) ==
    [c \in 1..(2 * Len(wave)) |->
        IF c % 2 = 1 THEN (Int16(wave[(c + 1) \div 2]) % 65536) \div 256
        ELSE Int16(wave[c \div 2]) % 256]

\* The waveform once, its half once, its quarter twice, its eighth 8 times.
SlotBytes(wave) ==
    SampleBytes(wave) \o SampleBytes(Decimation(wave, 2))
        \o Times(SampleBytes(Decimation(wave, 4)), 2)
        \o Times(SampleBytes(Decimation(wave, 8)), 8)

\* Bytes of one slot in the unpacked data: 3 waveforms' worth of samples.
SlotLen == 3 * PRO3_SAMPLE_SIZE * 2

\* C11: after wavetable_sysex_dump the unpacked data handed to pack hold, for
\* the slots 0..15 in order, the slot's samples once, every second sample
\* once, every fourth sample twice and every eighth sample eight times, each
\* sample as its high byte then its low byte; they are 16 slots of 3
\* waveforms of 2 bytes a sample, all inside the value array, and the table
\* is as it was.
C11_PayloadLayout ==
    wtOp = "wavetable_sysex_dump" =>
        /\ payload.size = PRO3_WAVES * SlotLen
        /\ payload.size <= SEQUENTIAL_DATA_MAX
        /\ Len(payload.value) = payload.size
        /\ \A k \in Slots :
              SubSeq(payload.value, k * SlotLen + 1, (k + 1) * SlotLen)
                  = SlotBytes(table.ref[k + 1])
        /\ table = entry

\* The name in exactly 8 bytes: padded with spaces when shorter, cut when
\* longer.
Name8(chars) ==
    [c \in 1..8 |-> IF c <= Len(chars) THEN chars[c] ELSE 32]

\* C12: a call of wavetable_sysex_dump writes, in this order and nothing
\* else: F0 01 31 6A 6C 01 6B, the slot number, 8 name bytes (the name
\* padded with spaces or cut), 00, the packed form of the unpacked data in
\* order, checksum AND 0x7F, (checksum >> 8) AND 0x7F, and F7.
C12_DumpOutput ==
    wtOp \in {"wavetable_sysex_dump", "fault"} =>
        sink = <<240, 1, 49, 106, 108, 1, 107, dumpNum>>
                  \o Name8(name0.chars)
                  \o <<0>>
                  \o pack(payload).value
                  \o <<DumpCheck(table, 16) % 128,
                       (DumpCheck(table, 16) \div 256) % 128,
                       247>>

(***************************************************************************)
(* Claims about pcm_change_resolution and pcm_change_size.                 *)
(***************************************************************************)
\* The only call so far is op(&pcm, arg).
OnlyCall(op, arg) == pcmCalls = <<Call(op, arg)>>

\* Buffers a and b have the same shape and the same size * channels samples.
SameBuffer(a, b) ==
    /\ a.size = b.size
    /\ a.channels = b.channels
    /\ a.resolution = b.resolution
    /\ \A i \in 0..(a.size * a.channels - 1) : Cell(a.data, i) = Cell(b.data, i)

\* The buffer went from resolution r1 up to r2 and back to r1.
UpAndBack(r1, r2) ==
    /\ pcmOrig.resolution = r1
    /\ pcmOrig.size > 0
    /\ pcmCalls = <<Call("pcm_change_resolution", r2), Call("pcm_change_resolution", r1)>>

\* C13: for every pair of resolutions r1 < r2 among 8, 16, 24 and 32,
\* pcm_change_resolution to r2 followed by pcm_change_resolution back to r1
\* restores every sample of a buffer of resolution r1, negative samples
\* included.
C13_ResolutionRoundTrip ==
    \A r1 \in {8, 16, 24}, r2 \in {16, 24, 32} :
        r1 < r2 /\ UpAndBack(r1, r2) => SameBuffer(pcm, pcmOrig)

\* The signed range of resolution r.
InRange(x, r) == -(2 ^ (r - 1)) <= x /\ x <= 2 ^ (r - 1) - 1

\* C14: when the first call lowers the resolution to r2 (8, 16 or 24), every
\* resulting sample lies in the signed range of r2; for r2 = 8 the sample
\* before the bias of 128 is added does, so that the stored value does not
\* wrap around.
C14_LoweredInRange ==
    \A r2 \in {8, 16, 24} :
        OnlyCall("pcm_change_resolution", r2) /\ r2 < pcmOrig.resolution =>
            \A i \in 0..(pcm.size * pcm.channels - 1) :
                /\ InRange(LoweredSample(Unbiased(Cell(pcmOrig.data, i), pcmOrig.resolution),
                                         pcmOrig.resolution, r2), r2)
                /\ InRange(Unbiased(Cell(pcm.data, i), r2), r2)

\* C15: pcm_change_size with new_size equal to the size of a buffer of more
\* than one sample per channel leaves the size, the channels, the resolution
\* and every sample as they were.
C15_SameSizeUnchanged ==
    OnlyCall("pcm_change_size", pcmOrig.size) /\ pcmOrig.size > 1 =>
        SameBuffer(pcm, pcmOrig)

\* The buffer in full, grown by doubling until it holds new_size samples per
\* channel.
Working(buf, new_size) ==
    Grow(Strict([i \in 1..(buf.size * buf.channels) |-> Cell(buf.data, i - 1)]),
         buf.size, buf.channels, new_size)

\* Output sample i of channel c is the working sample at floor(i * inc) of
\* the same channel, inc = data_size / new_size, an index inside the buffer.
TakenFrom(out, w, new_size, channels) ==
    \A i \in 0..(new_size - 1), c \in 0..(channels - 1) :
        /\ ((i * w.data_size) \div new_size) * channels + c <= w.data_size * channels - 1
        /\ Cell(out.data, i * channels + c)
              = Cell(w.data, ((i * w.data_size) \div new_size) * channels + c)

\* C20: after pcm_change_size the buffer of more than one sample per channel
\* has new_size samples per channel (at most PCM_PROC_MAX / channels), each
\* taken from the working buffer at floor(i * inc) of its channel; a buffer
\* of fewer than two samples per channel is unchanged.
C20_ResizeSamples ==
    \A new_size \in NewSizes :
        OnlyCall("pcm_change_size", new_size) =>
            IF pcmOrig.size > 1
            THEN /\ pcm.size = CappedSize(new_size, pcmOrig.channels)
                 /\ pcm.channels = pcmOrig.channels
                 /\ pcm.resolution = pcmOrig.resolution
                 /\ TakenFrom(pcm, Working(pcmOrig, pcm.size), pcm.size, pcm.channels)
            ELSE pcm = pcmOrig

(***************************************************************************)
(* Claim about the samples wavetable_fill writes.                          *)
(***************************************************************************)
\* Slots a and b of table t0 are set and the slots between them, at least
\* one, are not.
Bounded(t0, a, b) ==
    /\ a + 1 < b
    /\ t0.isset[a + 1] = 1
    /\ t0.isset[b + 1] = 1
    /\ \A k \in (a + 1)..(b - 1) : t0.isset[k + 1] = 0

\* trunc(low + (high - low) * p / len), evaluated exactly.
Direct(low, high, p, len) == CDiv(low * len + (high - low) * p, len)

\* trunc(low + (high - low) * p / len), evaluated in single precision.
FloatDirect(low, high, p, len) == Morph(low, high, FDiv(FromInt(p), FromInt(len)))

\* Every slot between a and b of the filled table is interpolated from
\* slots a and b of table t0, the table with slot 15 set.
DirectBetween(t0, a, b) ==
    \A t \in (a + 1)..(b - 1), i \in 1..PRO3_SAMPLE_SIZE :
        \/ table.ref[t + 1][i]
              = Direct(t0.ref[a + 1][i], t0.ref[b + 1][i], t - a, b - a - 1)
        \/ table.ref[t + 1][i]
              = FloatDirect(t0.ref[a + 1][i], t0.ref[b + 1][i], t - a, b - a - 1)

\* C19: after wavetable_fill on a table with slot 0 set, every sample i of
\* a slot t in a run of unset slots between the set slots a and b equals
\* trunc(ref[a][i] + (ref[b][i] - ref[a][i]) * p / len), p the position of t
\* in the run counted from 1 and len the length of the run, with ref[a] and
\* ref[b] the waveforms of the two set slots (the expression evaluated
\* exactly or in single precision).
C19_DirectInterpolation ==
    wtOp = "wavetable_fill" /\ entry.isset[1] = 1 =>
        \A a \in Slots, b \in Slots :
            Bounded(FillLast(entry), a, b) => DirectBetween(FillLast(entry), a, b)

(***************************************************************************)
(* Claims about get_wav_meta and wav_extract.                              *)
(***************************************************************************)
\* get_wav_meta has been called on the stream.
MetaTaken == wavOp # "loaded"

\* C16: for a canonical stream of more than 44 bytes with c channels (1 or
\* 2), r bits (8, 16, 24 or 32) and a data chunk of L bytes, get_wav_meta
\* reports channels c, resolution r, data_start 44, data_end 44 + L and
\* samples L / (c * r / 8), the number of samples of one channel.
C16_CanonicalMeta ==
    MetaTaken /\ wav.shape.kind = "canonical" /\ Len(wav.bytes) > 44 =>
        meta = WAVMeta(44, 44 + wav.shape.length,
                       wav.shape.length
                           \div (wav.shape.channels * (wav.shape.resolution \div 8)),
                       wav.shape.channels, wav.shape.resolution)

\* The stream has no "fmt " identifier or no "data" identifier.
LacksChunk ==
    wav.shape.kind \in {"cut before fmt", "no fmt", "no data", "no fmt, no data"}

\* C17: for a stream without a "fmt " or without a "data" identifier, of any
\* length, get_wav_meta returns without a fault and every field of the
\* metadata is zero.
C17_BrokenMetaZero ==
    MetaTaken /\ LacksChunk =>
        /\ wavOp # "get_wav_meta fault"
        /\ meta = WAVMeta(0, 0, 0, 0, 0)

\* Byte k of the two's-complement form of x.
ByteOf(x, k) == (x \div (256 ^ k)) % 256

\* Byte k of output cell j is the stream's byte at its index when that lies
\* inside the data chunk, and zero when it lies at or past the chunk's end.
ByteTaken(j, k) ==
    LET dx == ReadIndex(meta, wavArgs.start, j, k)
    IN  IF dx >= meta.data_end THEN ByteOf(Cell(wavPcm.data, j), k) = 0
        ELSE dx < Len(wav.bytes) => ByteOf(Cell(wavPcm.data, j), k) = wav.bytes[dx + 1]

\* C18: every sample wav_extract produces is made of its resolution / 8
\* bytes in little-endian order, read from data_start + start *
\* (resolution / 8) on; a byte at or past data_end counts as zero, and no
\* index at or past data_end is read.
C18_ExtractLittleEndian ==
    wavOp = "wav_extract" /\ meta.channels # 0 =>
        /\ \A j \in 0..(wavArgs.samples * meta.channels - 1),
              k \in 0..(SampleBytesOf(meta) - 1) : ByteTaken(j, k)
        /\ \A dx \in wavReads : dx < meta.data_end

(***************************************************************************)
(* Claims about the rounding of pcm_change_resolution.                     *)
(***************************************************************************)
\* The last call was pcm_change_resolution to r2, below the resolution the
\* buffer had.
Lowered(r2) ==
    /\ pcmCalls # <<>>
    /\ pcmCalls[Len(pcmCalls)] = Call("pcm_change_resolution", r2)
    /\ r2 < pcmWas.resolution

\* Bit k of the two's-complement form of v.
BitOf(v, k) == (v \div (2 ^ k)) % 2

\* The rule of the claim for a sample v lowered by d bits.
RoundedBy(v, d) ==
    LET t == v \div (2 ^ d)
    IN  IF BitOf(v, d - 1) = 1 /\ v >= 0 THEN t + 1
        ELSE IF BitOf(v, d - 1) = 0 /\ v < 0 THEN t - 1
        ELSE t

\* The range test keeps v from being moved: v would be rounded up from the
\* bound max = 2^r2 - 1 or down from min = -1 - max.
ClampInvolved(v, d, r2) ==
    \/ BitOf(v, d - 1) = 1 /\ v >= 0 /\ v \div (2 ^ d) >= (2 ^ r2) - 1
    \/ BitOf(v, d - 1) = 0 /\ v < 0 /\ v \div (2 ^ d) <= -(2 ^ r2)

\* A signed value as a buffer of resolution r holds it: 8-bit data is
\* unsigned, the value plus 128 in 8 bits.
StoredAs(x, r) == IF r = 8 THEN (x + 128) % 256 ELSE x

\* C21: when pcm_change_resolution lowers the resolution by d bits and the
\* range test does not interfere, a sample v becomes t + 1 if bit d - 1 of v
\* is set and v >= 0, t - 1 if that bit is clear and v < 0, and t otherwise,
\* with t = v >> d (an 8-bit result being stored unsigned).
C21_RoundingRule ==
    \A r2 \in {8, 16, 24} :
        Lowered(r2) =>
            \A i \in 0..(pcmWas.size * pcmWas.channels - 1) :
                (/\ Cell(pcmWas.data, i) # Indet
                 /\ ~ClampInvolved(Cell(pcmWas.data, i), pcmWas.resolution - r2, r2))
                => Cell(pcm.data, i)
                       = StoredAs(RoundedBy(Cell(pcmWas.data, i), pcmWas.resolution - r2), r2)

\* A cell of the buffer before the call satisfies kind.
SomeSample(kind(_, _)) ==
    \E r2 \in {8, 16, 24} :
        /\ Lowered(r2)
        /\ \E i \in 0..(pcmWas.size * pcmWas.channels - 1) :
              /\ Cell(pcmWas.data, i) # Indet
              /\ kind(Cell(pcmWas.data, i), pcmWas.resolution - r2)

ExactNegative(v, d) == v < 0 /\ v % (2 ^ d) = 0
NegativeRoundSet(v, d) == v < 0 /\ BitOf(v, d - 1) = 1
PositiveRoundSet(v, d) == v >= 0 /\ BitOf(v, d - 1) = 1

\* A buffer holding an exact negative sample, a negative sample with the
\* round bit set and a non-negative sample with the round bit set has been
\* lowered.
C21_Witness ==
    /\ SomeSample(ExactNegative)
    /\ SomeSample(NegativeRoundSet)
    /\ SomeSample(PositiveRoundSet)

(***************************************************************************)
(* Claims about the checksum and the bytes of a dump.                      *)
(***************************************************************************)
\* The 16-bit value of emitted sample j (from 0) with its two bytes swapped:
\* low byte * 256 + high byte, the bytes taken from the unpacked data.
SwappedSample(cells, j) == (cells[2 * j + 2] % 256) * 256 + (cells[2 * j + 1] % 256)

RECURSIVE SwappedSum(_, _, _)
\* The sum of the swapped values of the emitted samples lo..hi-1.
SwappedSum(cells, lo, hi) ==
    IF hi <= lo THEN 0
    ELSE IF hi = lo + 1 THEN SwappedSample(cells, lo)
    ELSE SwappedSum(cells, lo, (lo + hi) \div 2) + SwappedSum(cells, (lo + hi) \div 2, hi)

\* Samples a dump emits: 16 slots of 3 waveforms' worth.
EmittedSamples == PRO3_WAVES * 3 * PRO3_SAMPLE_SIZE

\* C22: the checksum of wavetable_sysex_dump is the sum modulo 2^16, over
\* every emitted sample in emission order (repeated waveforms counted each
\* time), of the sample's 16-bit value with its two bytes swapped; its two
\* masked bytes are what the dump writes before the final F7.
C22_Checksum ==
    wtOp = "wavetable_sysex_dump" =>
        /\ payload.size = 2 * EmittedSamples
        /\ checksumOut = SwappedSum(payload.value, 0, EmittedSamples) % 65536
        /\ SubSeq(sink, Len(sink) - 2, Len(sink))
               = <<checksumOut % 128, (checksumOut \div 256) % 128, 247>>

\* A dump of a table with negative samples whose sum has wrapped past 2^16
\* and is not 0.
C22_Witness ==
    /\ wtOp = "wavetable_sysex_dump"
    /\ \E c \in 1..payload.size : payload.value[c] < 0
    /\ SwappedSum(payload.value, 0, EmittedSamples) >= 65536
    /\ checksumOut # 0

\* Bytes a dump writes before the packed data: the header with the slot
\* number, the padded name and 00.
LeadLen == Len(DumpHeader(0) \o Printed8(Padded(<<>>)) \o <<0>>)

\* The packed data hold 7-bit values only, and so do the bytes that follow
\* the lead in out, up to the last byte.
SevenBitSafe(data, out) ==
    /\ \A c \in 1..data.size : data.value[c] \in 0..127
    /\ Len(out) = LeadLen + data.size + 3
    /\ \A c \in (LeadLen + 1)..(Len(out) - 1) : out[c] \in 0..127

\* C24: every value of the packed payload wavetable_sysex_dump obtains from
\* pack is in 0..127, although the high byte of a negative sample reaches
\* pack sign-extended; with the two masked checksum bytes, no byte written
\* between the lead of the dump and its final F7 has the 0x80 bit set.
C24_SevenBitSafe ==
    wtOp = "wavetable_sysex_dump" => SevenBitSafe(pack(payload), sink)

\* A dump whose unpacked data held the sign-extended high byte of a negative
\* sample.
C24_Witness ==
    /\ wtOp = "wavetable_sysex_dump"
    /\ \E c \in 1..payload.size : payload.value[c] < 0 /\ c % 2 = 1
    /\ Len(sink) > LeadLen + 3

(***************************************************************************)
(* Claims about the 6502 routine Pack.                                     *)
(***************************************************************************)
\* What the C function pack returns for the bytes of the source region.
PackedByC == pack(Seq_set(Len(ram.bytes), ram.bytes))

\* The writes are the values of data, in order, at the addresses from
\* ram.data on.
WroteExactly(data) ==
    written = [i \in 1..data.size |-> <<Moved(ram.data, i - 1), data.value[i]>>]

\* C23: for a source region of k >= 1 packets of 7 bytes, START at its first
\* byte and END marking its end, Pack returns having written to the data
\* region the 8k bytes the C function pack produces for the same 7k bytes,
\* in the same order: every packet is read from the 7 bytes that follow the
\* packet before, and all 8 bytes of every packet, the last included, are
\* written.
C23_PackAsC ==
    cpu.pc = "rts" /\ ram.stride = 7 =>
        /\ PackedByC.size = 8 * (Len(ram.bytes) \div 7)
        /\ WroteExactly(PackedByC)

(***************************************************************************)
(* Claims about pcm_normalize.                                             *)
(***************************************************************************)
\* pcm_normalize has been called on a buffer of 1 or 2 channels.
Normalized ==
    /\ pcmCalls # <<>>
    /\ pcmCalls[1].op = "pcm_normalize"
    /\ pcmOrig.channels \in {1, 2}

\* C25: for every buffer of 1 or 2 channels and every target amplitude,
\* pcm_normalize leaves the size per channel, the number of channels and
\* the resolution as they were.
C25_NormalizeFrame ==
    Normalized =>
        /\ pcm.size = pcmOrig.size
        /\ pcm.channels = pcmOrig.channels
        /\ pcm.resolution = pcmOrig.resolution

(***************************************************************************)
(* Claims about the growth phase of pcm_change_size.                       *)
(***************************************************************************)
\* The last call was pcm_change_size, run to its end or ended by a fault, on
\* a buffer of at least 2 samples per channel with a target size of at most
\* PCM_PROC_MAX / channels.
Resizing(new_size) ==
    /\ pcmCalls # <<>>
    /\ pcmCalls[Len(pcmCalls)].op \in {"pcm_change_size", "fault"}
    /\ pcmCalls[Len(pcmCalls)].arg = new_size
    /\ pcmWas.size >= 2
    /\ new_size <= PCM_PROC_MAX \div pcmWas.channels

\* The while loop ends with data_size at least new_size.
GrowthEnds(buf, new_size) ==
    Grow(WorkingCopy(buf), buf.size, buf.channels, new_size).data_size >= new_size

\* C26: for every buffer of at least 2 samples per channel and every target
\* size up to PCM_PROC_MAX / channels, the growth phase of pcm_change_size
\* ends, and no pass of it writes a working-buffer element at an index of
\* PCM_PROC_MAX or more.
C26_GrowthInside ==
    \A new_size \in 0..(PCM_PROC_MAX + 1) :
        Resizing(new_size) =>
            /\ GrowthEnds(pcmWas, new_size)
            /\ ~SizeOverrun(pcmWas, new_size)

====
